---- MODULE Spec2Model ----
(***************************************************************************)
(* tradestack: limit-order-book matching engine with a line-oriented TCP   *)
(* control surface.                                                        *)
(*                                                                         *)
(* The model follows the revision of the sources that the server links:    *)
(*   Instrument            src/unnamed/part_001                            *)
(*   SideTree<NodeType>    src/include/ask_tree.hpp (lines 52-180)         *)
(*   AVLTree<NodeType>     src/unnamed/part_009                            *)
(*   PriceLevelNode        src/include/price_level_node.hpp (lines 52-73)  *)
(*   Server / Session      src/unnamed/part_003, src/include/network.hpp   *)
(*   command processors    src/src/processors.cpp                          *)
(*   Notifier              src/src/notifier.cpp                            *)
(* and the classes of namespace tradestack that the tests drive:           *)
(*   tradestack::AVLTree   src/include/avl_tree.hpp                        *)
(*   tradestack::SideTree  src/include/side_tree.hpp                       *)
(*                                                                         *)
(* Seven specifications share the variables: Spec (placeOrder called on an *)
(* Instrument), SpecNet (the reactor and its line handlers, one whole line *)
(* per step), SpecReactor (the reactor byte by byte: recv, line framing,   *)
(* dispatch, send and the sweep of stale sessions, against a clock),       *)
(* SpecReactorFair (SpecReactor with a writable socket served again and    *)
(* again), SpecNotifier (the member functions of Notifier called one by    *)
(* one), SpecAvl and SpecSide (the classes of namespace tradestack).       *)
(*                                                                         *)
(* Price level nodes live in an explicit heap.  A node that                *)
(* AVLTree::remove has deleted keeps its last contents (st = "freed"):     *)
(* SideTree::remove neither stores the root that AVLTree::remove returns   *)
(* nor recomputes low/high, so root, low and high keep pointing at such    *)
(* nodes.  Reading through such a pointer, and calling front() on an empty *)
(* std::list, is undefined behaviour; every operation reports it in a flag *)
(* `ub`.  The outcomes of a call that met it are all kept:                 *)
(*   - the process dies (proc = "crashed");                                *)
(*   - the read saw the bytes the node held when it was deleted, and       *)
(*     front() of the empty list yielded a null pointer;                   *)
(*   - operator new handed the address of a deleted node to a later node   *)
(*     (NewAddrs), so that a stale pointer reads the live node that now    *)
(*     occupies the address, of whichever side;                            *)
(*   - the pointers form a cycle: the matching loop repeats a state it has *)
(*     been in and never returns (proc = "hung"), or a recursive descent   *)
(*     never bottoms out and exhausts the stack (flag `dead`, crashed).    *)
(***************************************************************************)
EXTENDS Integers, Sequences, FiniteSets, TLC

\* ---------------------------------------------------------------- bounds
MaxOrders == 5
MaxPrice == 2
MaxQty == 2
\* session layer: connections accepted, descriptors, orders placed over the
\* wire and their prices, messages still waiting in the output buffers when
\* the reactor reads a line, subscriptions of one group made by SUB lines,
\* members of one group when the Notifier is called directly, messages
\* waiting in the output buffers when notifyGroup is called directly
MaxSessions == 2
MaxFd == 2
NetMaxOrders == 2
NetMaxPrice == 2
MaxBacklog == 0
MaxSubs == 1
MaxMembers == 2
MaxQueued == 1
MaxKey == 4
MaxLibPrice == 3
MaxOrderId == 2
MaxLibOrders == 3
\* the seconds one step of the clock takes, and the longest text a peer sends
TickSeconds == 30
MaxTextLen == 12
\* the replies of one session whose sending is followed
MaxReplies == 2

NULL == 0

\* AVLTree::MAX_VISIT, std::numeric_limits<size_type>::max(): more than any
\* index holds
MAX_VISIT == 2147483647
\* const std::chrono::seconds SESSION_TIMEOUT = 60s
SESSION_TIMEOUT == 60

Prices == 1..MaxPrice
Qtys == 1..MaxQty
Addrs == 1..MaxOrders
Sides == {"Buy", "Sell"}
ClientIds == {"X", "Y"}

Max2(a, b) == IF a > b THEN a ELSE b
Min2(a, b) == IF a < b THEN a ELSE b

VARIABLES heap, buy_side, sell_side, orders, stats, fills, notes, proc,
          temp_sessions_, sessions_, sess, groups,
          evicted,   \* history: the session the AUTH processor has just removed
          notifier_ret, \* history: the call the last step made on the Notifier directly
          peer,      \* history: per session, the bytes recv has returned and the lines dispatched
          index,     \* a tradestack::AVLTree<uint64_t>
          old_index, \* the nodes and the root of an AVLTree<NodeType>
          index_ret, \* the last call on index and what it returned
          side_book, \* a tradestack::SideTree
          side_ret   \* the last call on side_book and what it returned

bookVars == <<heap, buy_side, sell_side, orders, stats, fills, notes>>
netVars == <<temp_sessions_, sessions_, sess, groups, evicted, notifier_ret, peer>>
libVars == <<index, old_index, index_ret, side_book, side_ret>>
vars == <<heap, buy_side, sell_side, orders, stats, fills, notes, proc,
          temp_sessions_, sessions_, sess, groups, evicted, notifier_ret, peer,
          index, old_index, index_ret, side_book, side_ret>>

\* ------------------------------------------------------- PriceLevelNode
\* st: "none" (never allocated), "live", "freed" (deleted, bytes retained)
NoNode == [price |-> 0, level |-> <<>>, height |-> 0, left |-> NULL, right |-> NULL, st |-> "none"]

PriceLevelNode(p) == [price |-> p, level |-> <<>>, height |-> 1, left |-> NULL, right |-> NULL, st |-> "live"]

IsFreed(h, n) == n # NULL /\ h[n].st = "freed"

leanCopy(h, n, other) ==
    IF other = NULL THEN h
    ELSE [h EXCEPT ![n].price = h[other].price,
                   ![n].level = h[other].level,
                   ![n].height = h[other].height]

\* ------------------------------------------------------------- AVLTree
height(h, node) == IF node = NULL THEN 0 ELSE h[node].height

balanceFactor(h, node) == height(h, h[node].left) - height(h, h[node].right)

updateHeight(h, node) ==
    [h EXCEPT ![node].height = 1 + Max2(height(h, h[node].left), height(h, h[node].right))]

rotateLeft(h, node) ==
    LET newRoot == h[node].right
        movedSubtree == h[newRoot].left
        h1 == [h EXCEPT ![newRoot].left = node, ![node].right = movedSubtree]
        h2 == updateHeight(h1, node)
    IN [heap |-> updateHeight(h2, newRoot), root |-> newRoot]

rotateRight(h, node) ==
    LET newRoot == h[node].left
        movedSubtree == h[newRoot].right
        h1 == [h EXCEPT ![newRoot].right = node, ![node].left = movedSubtree]
        h2 == updateHeight(h1, node)
    IN [heap |-> updateHeight(h2, newRoot), root |-> newRoot]

\* node->left = rotateLeft(node->left), node->right = rotateRight(node->right)
setLeft(r, node) == [r.heap EXCEPT ![node].left = r.root]
setRight(r, node) == [r.heap EXCEPT ![node].right = r.root]

\* the part of balance after updateHeight(node)
rebalance(h1, node) ==
    IF balanceFactor(h1, node) > 1
    THEN rotateRight(IF balanceFactor(h1, h1[node].left) < 0
                     THEN setLeft(rotateLeft(h1, h1[node].left), node)
                     ELSE h1, node)
    ELSE IF balanceFactor(h1, node) < -1
    THEN rotateLeft(IF balanceFactor(h1, h1[node].right) > 0
                    THEN setRight(rotateRight(h1, h1[node].right), node)
                    ELSE h1, node)
    ELSE [heap |-> h1, root |-> node]

balance(h, node) ==
    IF node = NULL THEN [heap |-> h, root |-> NULL]
    ELSE rebalance(updateHeight(h, node), node)

\* Every walk over the nodes carries a budget d of steps.  A tree of live
\* nodes is never deeper than the number of addresses, so a walk that uses the
\* budget up is going round a cycle of pointers: a loop that does not end
\* (hung), or a recursion that exhausts the stack (dead).
TreeFuel == MaxOrders + 1

\* return balance(root) after the recursive call r has been linked in: b
insertReturn(h, root, r, b) ==
    IF r.dead THEN r
    ELSE [heap |-> b.heap, root |-> b.root, out |-> r.out,
          ub |-> r.ub \/ IsFreed(h, root), dead |-> FALSE]

\* root->left = insert(root->left, ...), root->right = insert(root->right, ...)
insertLeft(h, root, r) == insertReturn(h, root, r, balance(setLeft(r, root), root))
insertRight(h, root, r) == insertReturn(h, root, r, balance(setRight(r, root), root))

RECURSIVE AVLTree_insert(_, _, _, _, _)
\* addr is the address operator new returns for the node created, if any
AVLTree_insert(h, root, price, addr, d) ==
    IF d = 0 THEN [heap |-> h, root |-> root, out |-> NULL, ub |-> TRUE, dead |-> TRUE]
    ELSE IF root = NULL
    THEN [heap |-> [h EXCEPT ![addr] = PriceLevelNode(price)], root |-> addr, out |-> addr,
          ub |-> FALSE, dead |-> FALSE]
    ELSE IF price < h[root].price
    THEN insertLeft(h, root, AVLTree_insert(h, h[root].left, price, addr, d - 1))
    ELSE IF price > h[root].price
    THEN insertRight(h, root, AVLTree_insert(h, h[root].right, price, addr, d - 1))
    ELSE [heap |-> h, root |-> root, out |-> root, ub |-> IsFreed(h, root), dead |-> FALSE]

RECURSIVE AVLTree_findMin(_, _, _)
AVLTree_findMin(h, node, d) ==
    IF d = 0 THEN NULL
    ELSE IF h[node].left = NULL THEN node
    ELSE AVLTree_findMin(h, h[node].left, d - 1)

\* The body of AVLTree<NodeType>::remove is not among the sources (only its
\* declaration and its caller are).  Modelled as the textbook recursive erase
\* the declaration and PriceLevelNode::leanCopy fit: a node with at most one
\* child is deleted and replaced by that child, a node with two children takes
\* over the contents of its in-order successor, which is then removed from the
\* right subtree; every node on the way back is rebalanced.
removeReturn(h, root, r, b) ==
    IF r.dead THEN r
    ELSE [heap |-> b.heap, root |-> b.root, ub |-> r.ub \/ IsFreed(h, root), dead |-> FALSE]

removeLeft(h, root, r) == removeReturn(h, root, r, balance(setLeft(r, root), root))
removeRight(h, root, r) == removeReturn(h, root, r, balance(setRight(r, root), root))

RECURSIVE AVLTree_remove(_, _, _, _)
\* a node with two children: it takes the successor's contents over and the
\* successor is removed from its right subtree
removeSuccessor(h, root, succ, d) ==
    removeRight(h, root,
                AVLTree_remove(leanCopy(h, root, succ), h[root].right, h[succ].price, d - 1))

AVLTree_remove(h, root, price, d) ==
    IF d = 0 THEN [heap |-> h, root |-> root, ub |-> TRUE, dead |-> TRUE]
    ELSE IF root = NULL THEN [heap |-> h, root |-> NULL, ub |-> FALSE, dead |-> FALSE]
    ELSE IF price < h[root].price
    THEN removeLeft(h, root, AVLTree_remove(h, h[root].left, price, d - 1))
    ELSE IF price > h[root].price
    THEN removeRight(h, root, AVLTree_remove(h, h[root].right, price, d - 1))
    ELSE IF h[root].left = NULL \/ h[root].right = NULL
    THEN [heap |-> [h EXCEPT ![root].st = "freed"],
          root |-> IF h[root].left # NULL THEN h[root].left ELSE h[root].right,
          ub |-> IsFreed(h, root), dead |-> FALSE]
    ELSE IF AVLTree_findMin(h, h[root].right, d) = NULL
    THEN [heap |-> h, root |-> root, ub |-> TRUE, dead |-> TRUE]
    ELSE removeSuccessor(h, root, AVLTree_findMin(h, h[root].right, d), d)

\* ------------------------------------------------------------ SideTree
\* one side of the book: the fields of SideTree<PriceLevelNode>
EmptySide == [root |-> NULL, low |-> NULL, high |-> NULL, orderCount |-> 0]

RECURSIVE FindFrom(_, _, _, _)
FindFrom(h, node, price, d) ==
    IF d = 0 THEN [node |-> NULL, ub |-> TRUE, hung |-> TRUE]
    ELSE IF node = NULL THEN [node |-> NULL, ub |-> FALSE, hung |-> FALSE]
    ELSE LET r == IF price > h[node].price THEN FindFrom(h, h[node].right, price, d - 1)
                  ELSE IF price < h[node].price THEN FindFrom(h, h[node].left, price, d - 1)
                  ELSE [node |-> node, ub |-> FALSE, hung |-> FALSE]
         IN [node |-> r.node, ub |-> r.ub \/ IsFreed(h, node), hung |-> r.hung]

SideTree_find(h, st, price) == FindFrom(h, st.root, price, TreeFuel)

updateRange(h, st, inserted) ==
    [side |-> [st EXCEPT !.low = IF st.low = NULL \/ h[inserted].price < h[st.low].price
                                 THEN inserted ELSE st.low,
                         !.high = IF st.high = NULL \/ h[inserted].price > h[st.high].price
                                  THEN inserted ELSE st.high],
     ub |-> IsFreed(h, st.low) \/ IsFreed(h, st.high)]

\* level.insert(level.end(), &order): the order goes to the tail of the list
LevelPushBack(h, n, o) == [h EXCEPT ![n].level = Append(@, o)]

\* s is the engine state [heap, orders, ub, ...]; which is "buy_side" or
\* "sell_side"; o is the index of the order in orders; addr is the address
\* operator new returns if the call creates a node; st is s[which]

\* the branch if (!root): the tree gets its first node
insertFirst(s, which, o, addr, h1) ==
    LET rng == updateRange(h1, [s[which] EXCEPT !.root = addr, !.orderCount = @ + 1], addr)
    IN [s EXCEPT !.heap = h1, ![which] = rng.side,
                 !.orders[o].level_posn = addr,
                 !.ub = @ \/ rng.ub]

\* the branch else of if (found): r is what avl.insert(root, price, pos)
\* returned
insertNew(s, which, o, f, r) ==
    LET h1 == LevelPushBack(r.heap, r.out, o)
        rng == updateRange(h1, [s[which] EXCEPT !.root = r.root], r.out)
    IN IF r.dead THEN [s EXCEPT !.dead = TRUE, !.ub = TRUE]
       ELSE [s EXCEPT !.heap = h1, ![which] = rng.side,
                      !.orders[o].level_posn = r.out,
                      !.ub = @ \/ f.ub \/ r.ub \/ rng.ub]

\* the branch else of if (!root): f is what find(order.price) returned
insertFound(s, which, o, addr, f) ==
    IF f.hung THEN [s EXCEPT !.hung = TRUE, !.ub = TRUE]
    ELSE IF f.node # NULL
    THEN [s EXCEPT !.heap = LevelPushBack(s.heap, f.node, o),
                   !.orders[o].level_posn = f.node,
                   !.ub = @ \/ f.ub \/ IsFreed(s.heap, f.node)]
    ELSE insertNew(s, which, o, f,
                   AVLTree_insert(s.heap, s[which].root, s.orders[o].price, addr, TreeFuel))

SideTree_insert(s, which, o, addr) ==
    IF s[which].root = NULL
    THEN insertFirst(s, which, o, addr,
                     LevelPushBack([s.heap EXCEPT ![addr] = PriceLevelNode(s.orders[o].price)],
                                   addr, o))
    ELSE insertFound(s, which, o, addr, SideTree_find(s.heap, s[which], s.orders[o].price))

SeqWithout(q, o) == SelectSeq(q, LAMBDA x : x # o)

\* the level of found is empty: r is what avl.remove(root, order.price) did;
\* the root it returns is dropped, low and high are left as they are
removeLevel(s, which, f, own, r) ==
    IF r.dead THEN [s EXCEPT !.dead = TRUE, !.ub = TRUE]
    ELSE [s EXCEPT !.heap = r.heap, ![which].orderCount = @ - 1,
                   !.ub = @ \/ f.ub \/ r.ub \/ ~own]

\* h1 is the heap after found->level.erase(order.level_posn)
removeErased(s, which, o, f, own, h1) ==
    IF h1[f.node].level = <<>>
    THEN removeLevel(s, which, f, own,
                     AVLTree_remove(h1, s[which].root, s.orders[o].price, TreeFuel))
    ELSE [s EXCEPT !.heap = h1, ![which].orderCount = @ - 1, !.ub = @ \/ f.ub \/ ~own]

\* found->level.erase(order.level_posn) unlinks the list node the iterator
\* designates; when that node belongs to the list of found (own) the order
\* leaves the level, otherwise (the list was copied by leanCopy, or found is
\* another node of the same price) found's list keeps it
removeFound(s, which, o, f, own) ==
    removeErased(s, which, o, f, own,
                 IF own THEN [s.heap EXCEPT ![f.node].level = SeqWithout(@, o)] ELSE s.heap)

\* f is what find(order.price) returned
removeFind(s, which, o, f) ==
    IF f.hung THEN [s EXCEPT !.hung = TRUE, !.ub = TRUE]
    ELSE IF f.node = NULL THEN [s EXCEPT !.ub = @ \/ f.ub]
    ELSE removeFound(s, which, o, f,
                     s.orders[o].level_posn = f.node
                     /\ \E i \in 1..Len(s.heap[f.node].level) : s.heap[f.node].level[i] = o)

SideTree_remove(s, which, o) ==
    removeFind(s, which, o, SideTree_find(s.heap, s[which], s.orders[o].price))

\* ---------------------------------------------------------- Instrument
\* market statistics of Instrument (instrument.hpp)
NoStats == [last_trade_price |-> 0, last_trade_size |-> 0, volume_today |-> 0,
            vwap_numerator |-> 0, open |-> 0, high |-> 0, low |-> 0, close |-> 0]

\* updatePrices with open assigned on every fill
updatePrices_openEachFill(st, fillPrice) ==
    [st EXCEPT !.last_trade_price = fillPrice,
               !.high = Max2(@, fillPrice),
               !.low = Min2(@, fillPrice),
               !.open = fillPrice,
               !.close = fillPrice]

updatePrices(st, fillPrice) ==
    [st EXCEPT !.last_trade_price = fillPrice,
               !.high = Max2(@, fillPrice),
               !.low = Min2(@, fillPrice),
               !.open = IF @ = 0 THEN fillPrice ELSE @,
               !.close = fillPrice]

\* a notification request made by the engine, in call order
NoteUser(cid, q, p) == [to |-> "user", id |-> cid, k |-> "EXEC", q |-> q, p |-> p]
\* the F1_UPDATE block of updatePrices: LTP (p), HIGH, LOW, OPEN and CLOSE as
\* they are after the update
NoteGroup(g, st) ==
    [to |-> "group", id |-> g, k |-> "F1_UPDATE", q |-> 0, p |-> st.last_trade_price,
     high |-> st.high, low |-> st.low, open |-> st.open, close |-> st.close]

\* order o is linked in the level list of some node: a live one, or a
\* deleted one whose storage has not been handed out again
InLevel(h, os, o) ==
    \E n \in Addrs : h[n].st # "none" /\ (\E i \in 1..Len(h[n].level) : h[n].level[i] = o)
                     /\ (h[n].st = "live" \/ os[o].level_posn = n)

RestingOf(h, os, side) == {o \in 1..Len(os) : os[o].side = side /\ InLevel(h, os, o)}

SetMax(S) == CHOOSE x \in S : \A y \in S : y <= x
SetMin(S) == CHOOSE x \in S : \A y \in S : x <= y

\* what the book held when a fill was made, recorded with the fill: the best
\* price of each side and the orders of each side that were resting
BookView(h, os) ==
    LET B == RestingOf(h, os, "Buy")
        S == RestingOf(h, os, "Sell")
    IN [restingBuy |-> B, restingSell |-> S,
        bestBuy |-> IF B = {} THEN 0 ELSE SetMax({os[o].price : o \in B}),
        bestSell |-> IF S = {} THEN 0 ELSE SetMin({os[o].price : o \in S})]

\* upper bound on the iterations of while (true) that the model follows when
\* the state of the loop never repeats
LoopFuel(s) == 2 * Len(s.orders) + 2

\* one iteration of the loop from the heads of the two levels on: the fill
\* f = [buy, sell, qty, price, book] of the best buy and the best sell order
\* (the price is the sell level's), recorded with the book it was made in
matchFill(s) ==
    [buy |-> Head(s.heap[s.buy_side.high].level),
     sell |-> Head(s.heap[s.sell_side.low].level),
     qty |-> Min2(s.orders[Head(s.heap[s.buy_side.high].level)].remaining,
                  s.orders[Head(s.heap[s.sell_side.low].level)].remaining),
     price |-> s.heap[s.sell_side.low].price,
     book |-> BookView(s.heap, s.orders)]

\* filled += fillQty, remaining -= fillQty on both orders
matchReduce(s, f) ==
    [s EXCEPT !.orders[f.buy].filled = @ + f.qty,
              !.orders[f.buy].remaining = @ - f.qty,
              !.orders[f.sell].filled = @ + f.qty,
              !.orders[f.sell].remaining = @ - f.qty]

\* if (bestBuyPtr->remaining == 0) buy_side.remove(*bestBuyPtr)
matchRemoveBuy(s, f) ==
    IF s.orders[f.buy].remaining = 0 THEN SideTree_remove(s, "buy_side", f.buy) ELSE s

\* if (bestSellPtr->remaining == 0) sell_side.remove(*bestSellPtr)
matchRemoveSell(s, f) ==
    IF s.hung \/ s.dead THEN s
    ELSE IF s.orders[f.sell].remaining = 0 THEN SideTree_remove(s, "sell_side", f.sell)
    ELSE s

\* the statistics and the notifications of the fill
matchRecord(s, f) ==
    IF s.hung \/ s.dead THEN s
    ELSE [s EXCEPT !.stats = [updatePrices(@, f.price) EXCEPT !.last_trade_size = f.qty],
                   !.fills = Append(@, f),
                   !.notes = @ \o <<NoteGroup("L1", updatePrices(s.stats, f.price)),
                                    NoteUser(s.orders[f.buy].clientId, f.qty, f.price),
                                    NoteUser(s.orders[f.sell].clientId, f.qty, f.price)>>]

matchOnce(s, f) == matchRecord(matchRemoveSell(matchRemoveBuy(matchReduce(s, f), f), f), f)

\* reading the two best levels through buy_side.high and sell_side.low
matchDangling(s) == IsFreed(s.heap, s.buy_side.high) \/ IsFreed(s.heap, s.sell_side.low)

matchKey(s) == <<s.heap, s.orders, s.buy_side, s.sell_side>>

RECURSIVE execute_limit_if_match(_, _)
\* seen holds the states in which the loop has started an iteration: the loop
\* is deterministic, so one that comes back to such a state never ends (hung)
execute_limit_if_match(s, seen) ==
    IF s.hung \/ s.dead THEN s
    ELSE IF s.buy_side.high = NULL \/ s.sell_side.low = NULL THEN s
    ELSE IF s.heap[s.buy_side.high].price < s.heap[s.sell_side.low].price
    THEN [s EXCEPT !.ub = @ \/ matchDangling(s)]
    ELSE IF s.heap[s.buy_side.high].level = <<>> \/ s.heap[s.sell_side.low].level = <<>>
    THEN [s EXCEPT !.ub = TRUE]
    ELSE IF matchKey(s) \in seen \/ Cardinality(seen) >= LoopFuel(s)
    THEN [s EXCEPT !.hung = TRUE, !.ub = @ \/ matchDangling(s)]
    ELSE execute_limit_if_match(matchOnce([s EXCEPT !.ub = @ \/ matchDangling(s)], matchFill(s)),
                                seen \cup {matchKey(s)})

Instrument_placeOrder(s, o, addr) ==
    execute_limit_if_match(IF s.orders[o].side = "Buy"
                           THEN SideTree_insert(s, "buy_side", o, addr)
                           ELSE SideTree_insert(s, "sell_side", o, addr), {})

\* new Order(clientId, price, qty, side, OrderType::Limit)
Order(cid, price, qty, side) ==
    [clientId |-> cid, price |-> price, quantity |-> qty, remaining |-> qty, filled |-> 0,
     side |-> side, level_posn |-> NULL]

\* the engine state handed to placeOrder and the state it leaves
Engine == [heap |-> heap, buy_side |-> buy_side, sell_side |-> sell_side, orders |-> orders,
           stats |-> stats, fills |-> <<>>, notes |-> <<>>,
           ub |-> FALSE, dead |-> FALSE, hung |-> FALSE]

\* the addresses operator new may return for a price level node: storage
\* never used before, or the storage of a node deleted earlier
NewAddrs ==
    {a \in Addrs : heap[a].st = "freed"}
    \cup {a \in Addrs : heap[a].st = "none" /\ \A b \in 1..(a - 1) : heap[b].st # "none"}

Placed(cid, price, qty, side, addr) ==
    Instrument_placeOrder([Engine EXCEPT !.orders = Append(@, Order(cid, price, qty, side))],
                          Len(orders) + 1, addr)

Install(s) ==
    /\ heap' = s.heap
    /\ buy_side' = s.buy_side
    /\ sell_side' = s.sell_side
    /\ orders' = s.orders
    /\ stats' = s.stats
    /\ fills' = s.fills
    /\ notes' = s.notes

\* ------------------------------------------------------------- Session
Fds == 1..MaxFd
Groups == {"L1"}
NoCid == ""

\* Session(fd_, timeout_): is_authenticated = false, client_id empty, both
\* buffers empty, last_active = now. idle is now() - last_active in seconds;
\* epollout is whether the epoll set holds EPOLLOUT for the descriptor
\* (accept_new adds the descriptor with EPOLLIN only)
Session(fd) ==
    [fd |-> fd, is_authenticated |-> FALSE, client_id |-> NoCid, outbuf |-> <<>>,
     inbuf |-> <<>>, idle |-> 0, epollout |-> FALSE]

\* what is left of a Session once close_fd() has run and the last
\* shared_ptr to it is gone
Destroyed ==
    [fd |-> -1, is_authenticated |-> FALSE, client_id |-> NoCid, outbuf |-> <<>>,
     inbuf |-> <<>>, idle |-> 0, epollout |-> FALSE]

Msg(k) == [k |-> k, q |-> 0, p |-> 0]

\* N is the session layer state [temp_sessions_, sessions_, sess, groups] at
\* the start of a handler; evicted is NULL until the handler removes a session
\* that another one supersedes
Net == [temp_sessions_ |-> temp_sessions_, sessions_ |-> sessions_, sess |-> sess,
        groups |-> groups, evicted |-> NULL]

\* modify_epoll_out that leaves the epoll set as it is
modify_epoll_out_noop(N, fd, enable) == N

\* Server::modify_epoll_out: EPOLL_CTL_MOD to EPOLLIN | (enable ? EPOLLOUT : 0);
\* the epoll set holds the descriptors of temp_sessions_, and for any other
\* descriptor epoll_ctl fails and nothing changes
modify_epoll_out(N, fd, enable) ==
    IF fd \notin Fds \/ N.temp_sessions_[fd] = NULL THEN N
    ELSE [N EXCEPT !.sess[N.temp_sessions_[fd]].epollout = enable]

\* enqueue_reply that puts the reply in front of what waits
enqueue_reply_atFront(N, sid, m) ==
    modify_epoll_out([N EXCEPT !.sess[sid].outbuf = <<m>> \o @], N.sess[sid].fd, TRUE)

\* Server::enqueue_reply: s->outbuf += reply; modify_epoll_out(fd, true)
enqueue_reply(N, sid, m) ==
    modify_epoll_out([N EXCEPT !.sess[sid].outbuf = Append(@, m)], N.sess[sid].fd, TRUE)

Registered(N, cid) == IF cid \in DOMAIN N.sessions_ THEN N.sessions_[cid] ELSE NULL

\* remove_session without the erase from sessions_: the variant the
\* properties of the session tables must tell from remove_session
remove_session_keepsEntry(N, fd) ==
    IF fd \notin Fds \/ N.temp_sessions_[fd] = NULL THEN N
    ELSE [N EXCEPT !.sess[N.temp_sessions_[fd]].fd = -1, !.temp_sessions_[fd] = NULL]

\* remove_session after which the session still holds its unsent output
remove_session_keepsOutput(N, fd) ==
    IF fd \notin Fds \/ N.temp_sessions_[fd] = NULL THEN N
    ELSE [N EXCEPT !.sessions_ = [c \in DOMAIN @ |->
                                     IF @[c] = N.temp_sessions_[fd] THEN NULL ELSE @[c]],
                   !.sess[N.temp_sessions_[fd]].fd = -1,
                   !.sess[N.temp_sessions_[fd]].epollout = FALSE,
                   !.temp_sessions_[fd] = NULL]

\* Server::remove_session(fd)
remove_session(N, fd) ==
    IF fd \notin Fds \/ N.temp_sessions_[fd] = NULL THEN N
    ELSE LET sid == N.temp_sessions_[fd]
             s == N.sess[sid]
             N1 == IF s.is_authenticated /\ s.client_id # NoCid
                      /\ Registered(N, s.client_id) = sid
                   THEN [N EXCEPT !.sessions_[s.client_id] = NULL]
                   ELSE N
             N2 == [N1 EXCEPT !.sess[sid].fd = -1, !.temp_sessions_[fd] = NULL]
         IN IF \E c \in DOMAIN N2.sessions_ : N2.sessions_[c] = sid THEN N2
            ELSE [N2 EXCEPT !.sess[sid] = Destroyed]

\* ------------------------------------------------------------ Notifier
Notifier_notifyUser(N, cid, m) ==
    IF Registered(N, cid) = NULL THEN N
    ELSE enqueue_reply(N, Registered(N, cid), m)

\* notifyGroup that serves the first member of the list only
Notifier_notifyGroup_firstOnly(N, g, m) ==
    IF g \notin DOMAIN N.groups \/ N.groups[g] = <<>> THEN N
    ELSE Notifier_notifyUser(N, Head(N.groups[g]), m)

RECURSIVE NotifyEach(_, _, _)
NotifyEach(N, cids, m) ==
    IF cids = <<>> THEN N
    ELSE NotifyEach(Notifier_notifyUser(N, Head(cids), m), Tail(cids), m)

Notifier_notifyGroup(N, g, m) ==
    IF g \notin DOMAIN N.groups THEN N ELSE NotifyEach(N, N.groups[g], m)

\* groups[group].push_back(clientId): operator[] puts an empty list under a
\* group the map does not hold yet
Notifier_subscribe(N, g, cid) ==
    [N EXCEPT !.groups = [x \in DOMAIN @ \cup {g} |->
                             IF x # g THEN @[x]
                             ELSE IF g \in DOMAIN @ THEN Append(@[g], cid) ELSE <<cid>>]]

\* Notifier::unsubscribe: auto g = groups[group] copies the list (operator[]
\* puts an empty list under a group the map does not hold yet); find and
\* erase act on the copy, which is dropped when the function returns
Notifier_unsubscribe(N, g, cid) ==
    [N EXCEPT !.groups = [x \in DOMAIN @ \cup {g} |->
                             IF x # g THEN @[x]
                             ELSE IF g \in DOMAIN @ THEN @[g] ELSE <<>>]]

\* the record of a direct call: the last step made none
NoNotifierCall == [op |-> "none", group |-> "", clientId |-> "", message |-> ""]

\* the notifications the matching loop requested, delivered in call order
RECURSIVE Deliver(_, _)
Deliver(N, ns) ==
    IF ns = <<>> THEN N
    ELSE LET n == Head(ns)
         IN Deliver(IF n.to = "user"
                    THEN Notifier_notifyUser(N, n.id, [k |-> n.k, q |-> n.q, p |-> n.p])
                    ELSE Notifier_notifyGroup(N, n.id,
                             [k |-> n.k, q |-> n.q, p |-> n.p, high |-> n.high,
                              low |-> n.low, open |-> n.open, close |-> n.close]),
                    Tail(ns))

\* ----------------------------------------------------------- processors
DEBUG_SECRET == "123456"
EASTER_EGG == "pawy"
Instruments == {"AAPL"}

\* to_upper over the tokens the clients of this model send; numbers are
\* digit strings and stay what they are
to_upper(t) ==
    CASE t = "x" -> "X"
      [] t = "pawy" -> "PAWY"
      [] t = "auth" -> "AUTH"
      [] t = "debug" -> "DEBUG"
      [] t = "list" -> "LIST"
      [] t = "newl" -> "NEWL"
      [] t = "ping" -> "PING"
      [] t = "sub" -> "SUB"
      [] t = "bogus" -> "BOGUS"
      [] t = "buy" -> "BUY"
      [] t = "aapl" -> "AAPL"
      [] t = "l1" -> "L1"
      [] t = "hold" -> "HOLD"
      [] t = "msft" -> "MSFT"
      [] t = "abc" -> "ABC"
      [] OTHER -> t

iequals(a, b) == to_upper(a) = to_upper(b)

\* the loop of process_session_messages over the tokens of one line: every
\* token is upper-cased except the one that follows an AUTH token
FoldTokens(parts) ==
    [i \in 1..Len(parts) |->
        IF i # 1 /\ iequals(parts[i - 1], "AUTH") THEN parts[i] ELSE to_upper(parts[i])]

ProcPING(N, sid, parts) == enqueue_reply(N, sid, Msg("PONG"))

ProcDEBUG(N, sid, parts) ==
    IF Len(parts) >= 3 /\ parts[2] = "AUTH"
    THEN IF parts[3] = DEBUG_SECRET
         THEN enqueue_reply([N EXCEPT !.sess[sid].is_authenticated = TRUE], sid, Msg("AUTHORIZED"))
         ELSE enqueue_reply(N, sid, Msg("BAD_SECRET"))
    ELSE IF N.sess[sid].is_authenticated
    THEN IF Len(parts) >= 2 /\ parts[2] = "LIST" THEN enqueue_reply(N, sid, Msg("LIST")) ELSE N
    ELSE enqueue_reply(N, sid, Msg("UNAUTHORIZED"))

\* the AUTH processor without the eviction of the session that holds the
\* client_id: the variant the properties of a superseding login must tell
\* from ProcAUTH
ProcAUTH_keepsPrev(N, sid, parts) ==
    IF Len(parts) < 3 THEN enqueue_reply(N, sid, Msg("ERR BAD_COMMAND"))
    ELSE LET passkey == parts[2]
             cid == parts[3]
             s == N.sess[sid]
         IN IF ~iequals(passkey, EASTER_EGG) THEN enqueue_reply(N, sid, Msg("ERR BAD_PASSKEY"))
            ELSE IF s.is_authenticated /\ s.client_id = cid
            THEN enqueue_reply(N, sid, Msg("OK AUTH"))
            ELSE LET N1 == IF s.is_authenticated /\ s.client_id # NoCid
                           THEN [N EXCEPT !.sessions_[s.client_id] = NULL] ELSE N
                     N3 == [N1 EXCEPT !.sess[sid].is_authenticated = TRUE,
                                      !.sess[sid].client_id = cid,
                                      !.sessions_[cid] = sid]
                 IN enqueue_reply(N3, sid, Msg("OK AUTH"))

\* the AUTH processor without the erase of the entry the session was
\* registered under before
ProcAUTH_keepsOld(N, sid, parts) ==
    IF Len(parts) < 3 THEN enqueue_reply(N, sid, Msg("ERR BAD_COMMAND"))
    ELSE LET passkey == parts[2]
             cid == parts[3]
             s == N.sess[sid]
         IN IF ~iequals(passkey, EASTER_EGG) THEN enqueue_reply(N, sid, Msg("ERR BAD_PASSKEY"))
            ELSE IF s.is_authenticated /\ s.client_id = cid
            THEN enqueue_reply(N, sid, Msg("OK AUTH"))
            ELSE LET prev == Registered(N, cid)
                     N2 == IF prev # NULL /\ N.sess[prev].fd # s.fd
                           THEN [remove_session(N, N.sess[prev].fd) EXCEPT !.evicted = prev]
                           ELSE N
                     N3 == [N2 EXCEPT !.sess[sid].is_authenticated = TRUE,
                                      !.sess[sid].client_id = cid,
                                      !.sessions_[cid] = sid]
                 IN enqueue_reply(N3, sid, Msg("OK AUTH"))

ProcAUTH(N, sid, parts) ==
    IF Len(parts) < 3 THEN enqueue_reply(N, sid, Msg("ERR BAD_COMMAND"))
    ELSE LET passkey == parts[2]
             cid == parts[3]
             s == N.sess[sid]
         IN IF ~iequals(passkey, EASTER_EGG) THEN enqueue_reply(N, sid, Msg("ERR BAD_PASSKEY"))
            ELSE IF s.is_authenticated /\ s.client_id = cid
            THEN enqueue_reply(N, sid, Msg("OK AUTH"))
            ELSE LET N1 == IF s.is_authenticated /\ s.client_id # NoCid
                           THEN [N EXCEPT !.sessions_[s.client_id] = NULL] ELSE N
                     prev == Registered(N1, cid)
                     N2 == IF prev # NULL /\ N1.sess[prev].fd # s.fd
                           THEN [remove_session(N1, N1.sess[prev].fd) EXCEPT !.evicted = prev]
                           ELSE N1
                     N3 == [N2 EXCEPT !.sess[sid].is_authenticated = TRUE,
                                      !.sess[sid].client_id = cid,
                                      !.sessions_[cid] = sid]
                 IN enqueue_reply(N3, sid, Msg("OK AUTH"))

ProcSUB(N, sid, parts, clientId) ==
    IF ~N.sess[sid].is_authenticated THEN enqueue_reply(N, sid, Msg("UNAUTHORIZED"))
    ELSE IF Len(parts) < 2 THEN enqueue_reply(N, sid, Msg("ERR BAD_COMMAND"))
    ELSE enqueue_reply(Notifier_subscribe(N, parts[2], clientId), sid, Msg("SUBSCRIEBED"))

\* std::stoll over the number tokens of this model; a token that is not a
\* number throws. The long long it returns is kept in 16-bit limbs
\* <<l0, l1, l2>>, value l0 + 2^16 * l1 + 2^32 * l2; no token is negative
NumTokens == <<"1", "2", "3", "4", "5", "6">>
stoll(t) ==
    IF t = "0" THEN [ok |-> TRUE, v |-> <<0, 0, 0>>]
    ELSE IF \E i \in 1..Len(NumTokens) : NumTokens[i] = t
    THEN [ok |-> TRUE, v |-> <<CHOOSE i \in 1..Len(NumTokens) : NumTokens[i] = t, 0, 0>>]
    ELSE IF t = "2147483648" THEN [ok |-> TRUE, v |-> <<0, 32768, 0>>]
    ELSE IF t = "4294967296" THEN [ok |-> TRUE, v |-> <<0, 0, 1>>]
    ELSE [ok |-> FALSE, v |-> <<0, 0, 0>>]

\* std::stod over the same tokens: the prices of this model are small whole
\* numbers, which a double holds exactly
stod(t) == [ok |-> stoll(t).ok, v |-> stoll(t).v[1]]

\* static_cast<int>(tmp): the low 32 bits of the long long, read as a
\* two's complement int
static_cast_int(v) ==
    IF v[2] < 32768 THEN v[1] + 65536 * v[2] ELSE v[1] + 65536 * (v[2] - 65536)

\* the checks of the NEWL processor before the order is built: the reply of
\* the first one that fails, "" when all pass
NewlReject(N, sid, parts) ==
    IF ~N.sess[sid].is_authenticated THEN "UNAUTHORIZED"
    ELSE IF Len(parts) < 5
    THEN "ERR BAD_COMMAND\n USAGE: NEWL <BUY|SELL> <SYMBOL> <QTY> <PRICE>"
    ELSE IF parts[2] # "BUY" /\ parts[2] # "SELL" THEN "ERR BAD_SIDE"
    ELSE IF parts[3] \notin Instruments THEN "ERR BAD_SYMBOL"
    ELSE IF ~stoll(parts[4]).ok \/ stoll(parts[4]).v = <<0, 0, 0>> THEN "ERR BAD_QTY"
    ELSE IF ~stod(parts[5]).ok \/ ~(stod(parts[5]).v > 0) THEN "ERR BAD_PRICE"
    ELSE ""

\* the NEWL processor when a check fails: the reply, then return. The variant
\* before it goes on after the reply, as the processor does after its
\* no-client-id reply
NewlRejected_goesOn(N, sid, rej) ==
    enqueue_reply(enqueue_reply(N, sid, Msg(rej)), sid, Msg("REQUEST_MADE"))

NewlRejected(N, sid, rej) == enqueue_reply(N, sid, Msg(rej))

\* the clientId argument dispatch hands to a processor
DispatchClientId(N, sid) == N.sess[sid].client_id

\* ===================================================== ordered price index
\* tradestack::AVLTree<Key> (include/avl_tree.hpp). A tree is a record
\* [nodes, m_root, m_min, m_max, ub]: nodes maps an address to the Node stored
\* there, or to FreeNode when no node lives there; unique_ptr members are the
\* address they own or NULL; m_min, m_max and parent are raw pointers; ub is
\* set when a raw pointer is followed to a destroyed node.
TreeAddrs == 1..MaxKey

FreeNode == [key |-> 0, height |-> 0, left |-> NULL, right |-> NULL, parent |-> NULL,
             st |-> "free"]
EmptyTree == [nodes |-> [a \in TreeAddrs |-> FreeNode], m_root |-> NULL, m_min |-> NULL,
              m_max |-> NULL, ub |-> FALSE]

\* a raw pointer that is followed while the node it pointed to is destroyed
Dangling(N, n) == n # NULL /\ N[n].st # "live"

tree_height(N, n) == IF n = NULL THEN 0 ELSE N[n].height

update_height(N, n) ==
    [N EXCEPT ![n].height = 1 + Max2(tree_height(N, N[n].left), tree_height(N, N[n].right))]

balance_factor(N, n) == tree_height(N, N[n].left) - tree_height(N, N[n].right)

set_parent(N, c, par) == IF c = NULL THEN N ELSE [N EXCEPT ![c].parent = par]

\* rotate_left(p): the value is the nodes after it and what the slot p owns
rotate_left(N, p) ==
    LET y == N[p].right
        N1 == set_parent([N EXCEPT ![y].left = p,
                                   ![y].parent = N[p].parent,
                                   ![p].parent = y,
                                   ![p].right = N[y].left],
                         N[y].left, p)
    IN [nodes |-> update_height(update_height(N1, p), y), p |-> y]

rotate_right(N, p) ==
    LET y == N[p].left
        N1 == set_parent([N EXCEPT ![y].right = p,
                                   ![y].parent = N[p].parent,
                                   ![p].parent = y,
                                   ![p].left = N[y].right],
                         N[y].right, p)
    IN [nodes |-> update_height(update_height(N1, p), y), p |-> y]

\* rebalance that recomputes the height and never rotates
tree_rebalance_heightOnly(N0, p) ==
    IF p = NULL THEN [nodes |-> N0, p |-> NULL]
    ELSE [nodes |-> update_height(N0, p), p |-> p]

\* rebalance(p) of the class AVLTree
tree_rebalance(N0, p) ==
    IF p = NULL THEN [nodes |-> N0, p |-> NULL]
    ELSE LET N == update_height(N0, p)
         IN IF balance_factor(N, p) > 1
            THEN rotate_right(IF balance_factor(N, N[p].left) < 0
                              THEN LET r == rotate_left(N, N[p].left)
                                   IN [r.nodes EXCEPT ![p].left = r.p]
                              ELSE N, p)
            ELSE IF balance_factor(N, p) < -1
            THEN rotate_left(IF balance_factor(N, N[p].right) > 0
                             THEN LET r == rotate_right(N, N[p].right)
                                  IN [r.nodes EXCEPT ![p].right = r.p]
                             ELSE N, p)
            ELSE [nodes |-> N, p |-> p]

RECURSIVE insert_impl(_, _, _, _, _)
\* a is the address operator new returns if make_unique is reached
insert_impl(T, p, k, parent, a) ==
    IF p = NULL
    THEN [T |-> [T EXCEPT !.nodes[a] = [FreeNode EXCEPT !.key = k, !.height = 1, !.parent = parent,
                                           !.st = "live"],
                          !.m_min = IF @ = NULL \/ k < T.nodes[@].key THEN a ELSE @,
                          !.m_max = IF @ = NULL \/ T.nodes[@].key < k THEN a ELSE @,
                          !.ub = @ \/ Dangling(T.nodes, T.m_min) \/ Dangling(T.nodes, T.m_max)],
          p |-> a, n |-> a, created |-> TRUE]
    ELSE IF k < T.nodes[p].key
    THEN LET r == insert_impl(T, T.nodes[p].left, k, p, a)
             rb == tree_rebalance([r.T.nodes EXCEPT ![p].left = r.p], p)
         IN [r EXCEPT !.T.nodes = rb.nodes, !.p = rb.p]
    ELSE IF T.nodes[p].key < k
    THEN LET r == insert_impl(T, T.nodes[p].right, k, p, a)
             rb == tree_rebalance([r.T.nodes EXCEPT ![p].right = r.p], p)
         IN [r EXCEPT !.T.nodes = rb.nodes, !.p = rb.p]
    ELSE [T |-> T, p |-> p, n |-> p, created |-> FALSE]

\* insert that reports every key as newly created
tradestack_AVLTree_insert_created(T, k, a) ==
    LET r == insert_impl(T, T.m_root, k, NULL, a)
    IN [T |-> [r.T EXCEPT !.m_root = r.p], n |-> r.n, created |-> TRUE]

\* AVLTree::insert(k)
tradestack_AVLTree_insert(T, k, a) ==
    LET r == insert_impl(T, T.m_root, k, NULL, a)
    IN [T |-> [r.T EXCEPT !.m_root = r.p], n |-> r.n, created |-> r.created]

\* the loops of successor, predecessor and erase_node: down the children of
\* one side (dir is "left" or "right"), and up the parents while the node is
\* the child of that side
RECURSIVE walk_down(_, _, _)
walk_down(N, n, dir) == IF N[n][dir] = NULL THEN n ELSE walk_down(N, N[n][dir], dir)

RECURSIVE walk_up(_, _, _, _)
walk_up(N, n, up, dir) ==
    IF up # NULL /\ n = N[up][dir] THEN walk_up(N, up, N[up].parent, dir) ELSE up

successor(N, n) ==
    IF n = NULL THEN NULL
    ELSE IF N[n].right # NULL THEN walk_down(N, N[n].right, "left")
    ELSE walk_up(N, n, N[n].parent, "right")

\* predecessor without the climb over the parents
predecessor_down(N, n) ==
    IF n = NULL THEN NULL
    ELSE IF N[n].left # NULL THEN walk_down(N, N[n].left, "right")
    ELSE NULL

predecessor(N, n) ==
    IF n = NULL THEN NULL
    ELSE IF N[n].left # NULL THEN walk_down(N, N[n].left, "right")
    ELSE walk_up(N, n, N[n].parent, "left")

RECURSIVE erase_impl(_, _, _)
RECURSIVE erase_node(_, _)

erase_impl(T, p, k) ==
    IF p = NULL THEN [T |-> T, p |-> NULL, erased |-> FALSE]
    ELSE IF k < T.nodes[p].key
    THEN LET r == erase_impl(T, T.nodes[p].left, k)
             rb == tree_rebalance([r.T.nodes EXCEPT ![p].left = r.p], p)
         IN IF r.erased THEN [r EXCEPT !.T.nodes = rb.nodes, !.p = rb.p]
            ELSE [r EXCEPT !.p = p]
    ELSE IF T.nodes[p].key < k
    THEN LET r == erase_impl(T, T.nodes[p].right, k)
             rb == tree_rebalance([r.T.nodes EXCEPT ![p].right = r.p], p)
         IN IF r.erased THEN [r EXCEPT !.T.nodes = rb.nodes, !.p = rb.p]
            ELSE [r EXCEPT !.p = p]
    ELSE erase_node(T, p)

\* erase_node: m_min and m_max step off the node; a node with at most one
\* child c is destroyed and c takes its slot; with two children the key of the
\* leftmost node s of the right subtree is copied into p and s is erased
\* below p. Then if (p) rebalance(p).
erase_node(T0, p) ==
    LET T == [T0 EXCEPT !.m_min = IF p = @ THEN successor(T0.nodes, p) ELSE @,
                        !.m_max = IF p = @ THEN predecessor(T0.nodes, p) ELSE @]
        splice(c) ==
            [T |-> [T EXCEPT !.nodes = [set_parent(T.nodes, c, T.nodes[p].parent)
                                           EXCEPT ![p] = FreeNode]],
             p |-> c, erased |-> TRUE]
        s == walk_down(T.nodes, T.nodes[p].right, "left")
        below == erase_impl([T EXCEPT !.nodes[p].key = T.nodes[s].key],
                            T.nodes[p].right, T.nodes[s].key)
        r == IF T.nodes[p].left = NULL THEN splice(T.nodes[p].right)
             ELSE IF T.nodes[p].right = NULL THEN splice(T.nodes[p].left)
             ELSE [T |-> [below.T EXCEPT !.nodes[p].right = below.p], p |-> p, erased |-> TRUE]
        rb == tree_rebalance(r.T.nodes, r.p)
    IN [r EXCEPT !.T.nodes = rb.nodes, !.p = rb.p]

\* erase that does not store what the root slot owns afterwards
tradestack_AVLTree_erase_keepsRoot(T, k) ==
    LET r == erase_impl(T, T.m_root, k)
    IN [T |-> r.T, erased |-> r.erased]

\* AVLTree::erase(k)
tradestack_AVLTree_erase(T, k) ==
    LET r == erase_impl(T, T.m_root, k)
    IN [T |-> [r.T EXCEPT !.m_root = r.p], erased |-> r.erased]

RECURSIVE find_impl(_, _, _)
find_impl(N, n, k) ==
    IF n = NULL THEN NULL
    ELSE IF ~(N[n].key < k) /\ ~(k < N[n].key) THEN n
    ELSE find_impl(N, IF k < N[n].key THEN N[n].left ELSE N[n].right, k)

\* AVLTree::find(k)
tradestack_AVLTree_find(T, k) == find_impl(T.nodes, T.m_root, k)

\* inorder_impl with a visitor that notes the key of every node it is given;
\* the keys noted so far are acc, their number is count
RECURSIVE inorder_impl(_, _, _, _)
\* inorder_impl that visits the node without looking at count again
inorder_impl_uncounted(N, n, limit, acc) ==
    IF n = NULL \/ Len(acc) >= limit THEN acc
    ELSE inorder_impl(N, N[n].right, limit,
                      Append(inorder_impl(N, N[n].left, limit, acc), N[n].key))

inorder_impl(N, n, limit, acc) ==
    IF n = NULL \/ Len(acc) >= limit THEN acc
    ELSE LET l == inorder_impl(N, N[n].left, limit, acc)
         IN inorder_impl(N, N[n].right, limit,
                         IF Len(l) < limit THEN Append(l, N[n].key) ELSE l)

\* AVLTree::inorder(visit, limit)
tradestack_AVLTree_inorder(T, limit) == inorder_impl(T.nodes, T.m_root, limit, <<>>)

\* AVLTree::findMin(), AVLTree::findMax()
tradestack_AVLTree_findMin(T) == T.m_min
tradestack_AVLTree_findMax(T) == T.m_max

\* ============================================================= side book
\* tradestack::SideTree (include/side_tree.hpp). A side book is a record
\* [m_avl, m_levels, m_low, m_high, m_orderCnt, m_side]. m_levels maps a price
\* to the PriceLevelNode stored under it, or to NoLevel when the map has no
\* such key; a pointer to a map element is the key of the element (remove
\* resets m_low and m_high whenever it erases an element, so no pointer
\* outlives the element it names). An order in a level is <<id, clientOrderId>>.
LibPrices == 1..MaxLibPrice
NoLevel == [present |-> FALSE, price |-> 0, level |-> <<>>]
EmptySideTree == [m_avl |-> EmptyTree, m_levels |-> [p \in LibPrices |-> NoLevel],
                  m_low |-> NULL, m_high |-> NULL, m_orderCnt |-> 0, m_side |-> "Buy"]

LibOrder(id, cid, px) == [id |-> id, clientOrderId |-> cid, price |-> px]

touchRangeOnInsert(S, node) ==
    [S EXCEPT !.m_low = IF @ = NULL \/ S.m_levels[node].price < S.m_levels[@].price
                        THEN node ELSE @,
              !.m_high = IF @ = NULL \/ S.m_levels[node].price > S.m_levels[@].price
                         THEN node ELSE @]

\* insert: if (!m_levels.contains(px)) the key goes into the index and a
\* default-constructed node into the map; a is the address operator new
\* returns for the index node
tradestack_SideTree_insert(S, o, a) ==
    LET px == o.price
        S1 == IF ~S.m_levels[px].present
              THEN touchRangeOnInsert(
                       [S EXCEPT !.m_avl = tradestack_AVLTree_insert(@, px, a).T,
                                 !.m_levels[px] = [present |-> TRUE, price |-> px, level |-> <<>>]],
                       px)
              ELSE S
    IN [S |-> [S1 EXCEPT !.m_levels[px].level = Append(@, <<o.id, o.clientOrderId>>),
                         !.m_orderCnt = @ + 1],
        node |-> px]

\* match without the test of the client order id
match_idOnly(order, o) == o[1] = order.id

\* the lambda match of remove
match(order, o) ==
    IF order.clientOrderId = "" THEN o[1] = order.id
    ELSE o[1] = order.id /\ o[2] = order.clientOrderId

\* the position of the first order of the level that matches, 0 if none
FirstMatch(level, order) ==
    IF \E i \in 1..Len(level) : match(order, level[i])
    THEN CHOOSE i \in 1..Len(level) :
            /\ match(order, level[i])
            /\ \A j \in 1..(i - 1) : ~match(order, level[j])
    ELSE 0

recomputeRange(S) ==
    LET mn == tradestack_AVLTree_findMin(S.m_avl)
        mx == tradestack_AVLTree_findMax(S.m_avl)
        N == S.m_avl.nodes
    IN IF \A p \in LibPrices : ~S.m_levels[p].present
       THEN [S EXCEPT !.m_low = NULL, !.m_high = NULL]
       ELSE [S EXCEPT !.m_low = IF mn # NULL /\ N[mn].key \in LibPrices
                                    /\ S.m_levels[N[mn].key].present
                                 THEN N[mn].key ELSE NULL,
                      !.m_high = IF mx # NULL /\ N[mx].key \in LibPrices
                                     /\ S.m_levels[N[mx].key].present
                                  THEN N[mx].key ELSE NULL,
                      !.m_avl.ub = @ \/ Dangling(N, mn) \/ Dangling(N, mx)]

\* remove without the branch for a level that became empty
tradestack_SideTree_remove_keepsLevel(S, order) ==
    LET px == order.price
        level == S.m_levels[px].level
        i == FirstMatch(level, order)
    IN IF ~S.m_levels[px].present THEN [S |-> S, node |-> NULL]
       ELSE IF i = 0 THEN [S |-> S, node |-> px]
       ELSE [S |-> [S EXCEPT !.m_levels[px].level = SubSeq(level, 1, i - 1)
                                                       \o SubSeq(level, i + 1, Len(level)),
                             !.m_orderCnt = @ - 1],
             node |-> px]

\* remove: the first order that matches leaves its level; if (level.empty())
\* the price leaves the index and the map and the range is recomputed
tradestack_SideTree_remove(S, order) ==
    LET px == order.price
        level == S.m_levels[px].level
        i == FirstMatch(level, order)
        S1 == [S EXCEPT !.m_levels[px].level = SubSeq(level, 1, i - 1)
                                                  \o SubSeq(level, i + 1, Len(level)),
                        !.m_orderCnt = @ - 1]
    IN IF ~S.m_levels[px].present THEN [S |-> S, node |-> NULL]
       ELSE IF i = 0 THEN [S |-> S, node |-> px]
       ELSE IF S1.m_levels[px].level = <<>>
       THEN [S |-> recomputeRange([S1 EXCEPT !.m_avl = tradestack_AVLTree_erase(@, px).T,
                                             !.m_low = IF @ = px THEN NULL ELSE @,
                                             !.m_high = IF @ = px THEN NULL ELSE @,
                                             !.m_levels[px] = NoLevel]),
             node |-> NULL]
       ELSE [S |-> [S1 EXCEPT !.m_low = IF @ = NULL \/ px < S1.m_levels[@].price THEN px ELSE @,
                              !.m_high = IF @ = NULL \/ px > S1.m_levels[@].price THEN px ELSE @],
             node |-> px]

tradestack_SideTree_find(S, price_like) ==
    LET n == tradestack_AVLTree_find(S.m_avl, price_like)
    IN IF n = NULL THEN NULL
       ELSE IF S.m_avl.nodes[n].key \in LibPrices /\ S.m_levels[S.m_avl.nodes[n].key].present
       THEN S.m_avl.nodes[n].key ELSE NULL

\* top, the two loops over keys: the heads of the first levels of keys that
\* hold orders, until out has length entries
RECURSIVE top_walk(_, _, _, _)
top_walk(S, keys, length, out) ==
    IF keys = <<>> \/ Len(out) >= length THEN out
    ELSE top_walk(S, Tail(keys), length,
                  IF S.m_levels[Head(keys)].level # <<>>
                  THEN Append(out, [price |-> Head(keys), order |-> Head(S.m_levels[Head(keys)].level)])
                  ELSE out)

\* top that walks the keys upward whatever the side
tradestack_SideTree_top_ascending(S, length) ==
    IF length <= 0 \/ S.m_orderCnt = 0 THEN <<>>
    ELSE top_walk(S, tradestack_AVLTree_inorder(S.m_avl, MAX_VISIT), length, <<>>)

tradestack_SideTree_top(S, length) ==
    LET keys == tradestack_AVLTree_inorder(S.m_avl, MAX_VISIT)
    IN IF length <= 0 \/ S.m_orderCnt = 0 THEN <<>>
       ELSE top_walk(S, IF S.m_side = "Buy" THEN [i \in 1..Len(keys) |-> keys[Len(keys) + 1 - i]]
                        ELSE keys, length, <<>>)

\* the addresses operator new can return: any address no node lives at
AllocAddrs(T) ==
    IF \E a \in TreeAddrs : T.nodes[a].st = "free"
    THEN {a \in TreeAddrs : T.nodes[a].st = "free"} ELSE {NULL}

\* what the last call on the index was given and what it returned; keys is
\* the set of keys inserted and not erased since, erasedNode says where the
\* node holding the erased key stood, rootBefore is the root before the call
NoCall == [op |-> "none", k |-> 0, res |-> FALSE, n |-> NULL, limit |-> 0, visited |-> <<>>,
           keys |-> {}, erasedNode |-> "none", rootBefore |-> NULL]

\* AVLTree<NodeType> holds no state: the caller keeps the root, and out is the
\* node the last insert reported
NoOldIndex == [heap |-> [a \in TreeAddrs |-> NoNode], root |-> NULL, out |-> NULL]

InitLib ==
    /\ index = EmptyTree
    /\ old_index = NoOldIndex
    /\ index_ret = NoCall
    /\ side_book = EmptySideTree
    /\ side_ret = [op |-> "none", order |-> LibOrder(0, "", 0), node |-> NULL, length |-> 0,
                   out |-> <<>>, before |-> 0]


\* ------------------------------------------------- engine specification
InitBook ==
    /\ heap = [a \in Addrs |-> NoNode]
    /\ buy_side = EmptySide
    /\ sell_side = EmptySide
    /\ orders = <<>>
    /\ stats = NoStats
    /\ fills = <<>>
    /\ notes = <<>>
    /\ proc = "running"

\* no byte received, no line dispatched, not removed by cleanup_stale
NoTraffic == [recvd |-> <<>>, dispatched |-> <<>>, swept |-> FALSE]

InitNet ==
    /\ temp_sessions_ = [fd \in Fds |-> NULL]
    /\ sessions_ = [c \in ClientIds |-> NULL]
    /\ sess = <<>>
    /\ groups = [g \in Groups |-> <<>>]
    /\ evicted = NULL
    /\ notifier_ret = NoNotifierCall
    /\ peer = [sid \in 1..MaxSessions |-> NoTraffic]

Init == InitBook /\ InitNet /\ InitLib

\* the outcomes of a placeOrder call that leaves the engine state s
Returns(s) == ~s.hung /\ ~s.dead
Dies(s) == s.ub \/ s.dead

PlaceReturns(s) == Returns(s) /\ Install(s)

\* Instrument::placeOrder called on its own, when it returns

PlaceOrder ==
    /\ proc = "running"
    /\ Len(orders) < MaxOrders
    /\ \E price \in Prices, qty \in Qtys, side \in Sides, addr \in NewAddrs :
          PlaceReturns(Placed("X", price, qty, side, addr))
    /\ proc' = "running"
    /\ UNCHANGED netVars
    /\ UNCHANGED libVars

\* placeOrder met undefined behaviour and the process died
PlaceOrderCrash ==
    /\ proc = "running"
    /\ Len(orders) < MaxOrders
    /\ \E price \in Prices, qty \in Qtys, side \in Sides, addr \in NewAddrs :
          Dies(Placed("X", price, qty, side, addr))
    /\ proc' = "crashed"
    /\ UNCHANGED bookVars
    /\ UNCHANGED netVars
    /\ UNCHANGED libVars

\* placeOrder entered a loop that does not end
PlaceOrderHang ==
    /\ proc = "running"
    /\ Len(orders) < MaxOrders
    /\ \E price \in Prices, qty \in Qtys, side \in Sides, addr \in NewAddrs :
          Placed("X", price, qty, side, addr).hung
    /\ proc' = "hung"
    /\ UNCHANGED bookVars
    /\ UNCHANGED netVars
    /\ UNCHANGED libVars

Next == PlaceOrder \/ PlaceOrderCrash \/ PlaceOrderHang

Spec == Init /\ [][Next]_vars

\* ------------------------------------------------ reactor specification
NetPrices == 1..NetMaxPrice

RECURSIVE SumLen(_, _)
SumLen(ss, i) == IF i = 0 THEN 0 ELSE Len(ss[i].outbuf) + SumLen(ss, i - 1)

\* the reactor reads a line only when at most MaxBacklog messages wait in
\* the output buffers
CanRead == proc = "running" /\ SumLen(sess, Len(sess)) <= MaxBacklog

InstallNet(N) ==
    /\ temp_sessions_' = N.temp_sessions_
    /\ sessions_' = N.sessions_
    /\ sess' = N.sess
    /\ groups' = N.groups
    /\ evicted' = N.evicted
    /\ notifier_ret' = NoNotifierCall

PassTokens == {"pawy", "PAWY", "nope"}
CidTokens == {"x", "X", "Y"}
SecretTokens == {"123456", "000000"}

\* Server::accept_new, one accepted connection; accept4 returns the lowest
\* descriptor that is not open
accept_new ==
    /\ proc = "running"
    /\ Len(sess) < MaxSessions
    /\ \E fd \in Fds :
          /\ temp_sessions_[fd] = NULL
          /\ \A lower \in 1..(fd - 1) : temp_sessions_[lower] # NULL
          /\ sess' = Append(sess, Session(fd))
          /\ temp_sessions_' = [temp_sessions_ EXCEPT ![fd] = Len(sess) + 1]
    /\ evicted' = NULL
    /\ notifier_ret' = NoNotifierCall
    /\ UNCHANGED <<sessions_, groups, proc>>
    /\ UNCHANGED bookVars
    /\ UNCHANGED peer
    /\ UNCHANGED libVars

\* Server::run: EPOLLERR/EPOLLHUP, or handle_read or handle_write returning
\* false (the peer closed, or recv or send failed)
PeerClose ==
    /\ proc = "running"
    /\ \E fd \in Fds : temp_sessions_[fd] # NULL /\ InstallNet(remove_session(Net, fd))
    /\ UNCHANGED proc
    /\ UNCHANGED bookVars
    /\ UNCHANGED peer
    /\ UNCHANGED libVars

\* the body of handle_write when the send() calls take the first n messages
\* of outbuf before one returns EAGAIN or outbuf is empty: erase(0, n),
\* touch(), and modify_epoll_out(fd, false) if nothing is left
WriteSome(N, fd, n) ==
    LET sid == N.temp_sessions_[fd]
        N1 == [N EXCEPT !.sess[sid].outbuf = SubSeq(@, n + 1, Len(@)),
                        !.sess[sid].idle = 0]
    IN IF N1.sess[sid].outbuf = <<>> THEN modify_epoll_out(N1, fd, FALSE) ELSE N1

\* Server::handle_write(fd), run for an EPOLLOUT event: the epoll set holds
\* EPOLLOUT for fd and send() takes a non-empty prefix of outbuf
handle_write(fd) ==
    /\ proc = "running"
    /\ temp_sessions_[fd] # NULL
    /\ sess[temp_sessions_[fd]].epollout
    /\ \E n \in 1..Len(sess[temp_sessions_[fd]].outbuf) : InstallNet(WriteSome(Net, fd, n))
    /\ UNCHANGED <<proc, peer>>
    /\ UNCHANGED bookVars
    /\ UNCHANGED libVars

\* handle_read -> process_session_messages -> dispatch, for one line
LinePING ==
    /\ CanRead
    /\ \E fd \in Fds :
          /\ temp_sessions_[fd] # NULL
          /\ \E line \in {<<"ping">>, <<"bogus">>} :
                LET parts == FoldTokens(line)
                    sid == temp_sessions_[fd]
                IN InstallNet(IF parts[1] = "PING" THEN ProcPING(Net, sid, parts)
                              ELSE enqueue_reply(Net, sid, Msg("ERR UNKNOWN_CMD")))
    /\ UNCHANGED proc
    /\ UNCHANGED bookVars
    /\ UNCHANGED peer
    /\ UNCHANGED libVars

LineDEBUG ==
    /\ CanRead
    /\ \E fd \in Fds :
          /\ temp_sessions_[fd] # NULL
          /\ \E line \in {<<"debug", "auth", x>> : x \in SecretTokens} :
                InstallNet(ProcDEBUG(Net, temp_sessions_[fd], FoldTokens(line)))
    /\ UNCHANGED proc
    /\ UNCHANGED bookVars
    /\ UNCHANGED peer
    /\ UNCHANGED libVars

LineAUTH ==
    /\ CanRead
    /\ \E fd \in Fds :
          /\ temp_sessions_[fd] # NULL
          /\ \E line \in {<<"auth", pk, c>> : pk \in PassTokens, c \in CidTokens} :
                InstallNet(ProcAUTH(Net, temp_sessions_[fd], FoldTokens(line)))
    /\ UNCHANGED proc
    /\ UNCHANGED bookVars
    /\ UNCHANGED peer
    /\ UNCHANGED libVars

LineSUB ==
    /\ CanRead
    /\ \E fd \in Fds :
          /\ temp_sessions_[fd] # NULL
          /\ \E line \in {<<"sub", "l1">>, <<"sub">>} :
                LET sid == temp_sessions_[fd]
                    N == ProcSUB(Net, sid, FoldTokens(line), DispatchClientId(Net, sid))
                IN /\ Len(N.groups["L1"]) <= MaxSubs
                   /\ InstallNet(N)
    /\ UNCHANGED proc
    /\ UNCHANGED bookVars
    /\ UNCHANGED peer
    /\ UNCHANGED libVars

\* the NEWL lines that pass the checks of the processor: quantities and
\* prices of the book, and one quantity of 2^32
NewlLines ==
    {<<"newl", sd, "aapl", NumTokens[q], NumTokens[p]>> :
        sd \in {"buy", "SELL"}, q \in Qtys, p \in NetPrices}
    \cup {<<"newl", "buy", "aapl", "4294967296", "1">>}

\* NEWL lines that fail a check of the processor: too few arguments, a side
\* that is not BUY or SELL, a symbol no instrument has, a quantity or a price
\* that is no number or is not positive
NewlBadLines ==
    {<<"newl", "buy", "aapl", "1">>,
     <<"newl", "hold", "aapl", "1", "1">>,
     <<"newl", "buy", "msft", "1", "1">>,
     <<"newl", "buy", "aapl", "0", "1">>,
     <<"newl", "SELL", "aapl", "abc", "1">>,
     <<"newl", "SELL", "aapl", "1", "0">>,
     <<"newl", "buy", "aapl", "1", "abc">>}

\* the NEWL processor up to and including the reply REQUEST_MADE
ProcNEWL(N, sid, parts, clientId, s) ==
    LET N1 == IF clientId = NoCid THEN enqueue_reply(N, sid, Msg("NOT AUTHENTICATED (NO CID)"))
              ELSE N
    IN enqueue_reply(Deliver(N1, s.notes), sid, Msg("REQUEST_MADE"))

\* placeOrder returned with the engine state s
NewlReturns(sid, parts, clientId, s) ==
    /\ Returns(s)
    /\ Install(s)
    /\ InstallNet(ProcNEWL(Net, sid, parts, clientId, s))

LineNEWL ==
    /\ CanRead
    /\ \E fd \in Fds :
          /\ temp_sessions_[fd] # NULL
          /\ \E line \in NewlLines \cup NewlBadLines :
                LET parts == FoldTokens(line)
                    sid == temp_sessions_[fd]
                    rej == NewlReject(Net, sid, parts)
                    clientId == DispatchClientId(Net, sid)
                IN IF rej # ""
                   THEN /\ InstallNet(NewlRejected(Net, sid, rej))
                        /\ UNCHANGED bookVars
                   ELSE /\ Len(orders) < NetMaxOrders
                        /\ \E addr \in NewAddrs :
                              NewlReturns(sid, parts, clientId,
                                          Placed(clientId, stod(parts[5]).v,
                                                 static_cast_int(stoll(parts[4]).v),
                                                 IF parts[2] = "BUY" THEN "Buy" ELSE "Sell", addr))
    /\ proc' = "running"
    /\ UNCHANGED peer
    /\ UNCHANGED libVars

\* the outcome of the placeOrder call a NEWL line leads to, if it leads to one
NewlOutcomes ==
    {Placed(DispatchClientId(Net, temp_sessions_[fd]), stod(FoldTokens(line)[5]).v,
            static_cast_int(stoll(FoldTokens(line)[4]).v),
            IF FoldTokens(line)[2] = "BUY" THEN "Buy" ELSE "Sell", addr) :
        <<fd, line, addr>> \in
            {x \in Fds \X NewlLines \X NewAddrs :
                /\ temp_sessions_[x[1]] # NULL
                /\ NewlReject(Net, temp_sessions_[x[1]], FoldTokens(x[2])) = ""}}

\* the NEWL processor when placeOrder meets undefined behaviour and does not
\* return: the process dies, or the call loops for ever (a call that loops
\* needs three placements, see PlaceOrderHang); the reactor is single-threaded
\* and handles nothing after either
LineNEWLNoReturn ==
    /\ CanRead
    /\ Len(orders) < NetMaxOrders
    /\ \E s \in NewlOutcomes : \/ Dies(s) /\ proc' = "crashed"
                               \/ s.hung /\ proc' = "hung"
    /\ UNCHANGED bookVars
    /\ UNCHANGED netVars
    /\ UNCHANGED libVars

NextNet ==
    \/ accept_new
    \/ PeerClose
    \/ \E fd \in Fds : handle_write(fd)
    \/ LinePING
    \/ LineDEBUG
    \/ LineAUTH
    \/ LineSUB
    \/ LineNEWL
    \/ LineNEWLNoReturn

SpecNet == Init /\ [][NextNet]_vars

\* ----------------------------------------------- notifier specification
\* The member functions of Notifier called one by one, between the lines the
\* reactor handles, on the sessions that accept_new and the AUTH processor
\* have set up. L2 is a group no call has subscribed anybody to.
GroupNames == {"L1", "L2"}

NotifierSubscribe ==
    /\ CanRead
    /\ \E g \in Groups, cid \in ClientIds :
          /\ Len(groups[g]) < MaxMembers
          /\ groups' = Notifier_subscribe(Net, g, cid).groups
          /\ notifier_ret' = [op |-> "subscribe", group |-> g, clientId |-> cid,
                              message |-> ""]
    /\ evicted' = NULL
    /\ UNCHANGED <<temp_sessions_, sessions_, sess, proc>>
    /\ UNCHANGED bookVars
    /\ UNCHANGED peer
    /\ UNCHANGED libVars

NotifierUnsubscribe ==
    /\ CanRead
    /\ \E g \in GroupNames, cid \in ClientIds :
          /\ groups' = Notifier_unsubscribe(Net, g, cid).groups
          /\ notifier_ret' = [op |-> "unsubscribe", group |-> g, clientId |-> cid,
                              message |-> ""]
    /\ evicted' = NULL
    /\ UNCHANGED <<temp_sessions_, sessions_, sess, proc>>
    /\ UNCHANGED bookVars
    /\ UNCHANGED peer
    /\ UNCHANGED libVars

\* notifyGroup may find messages waiting in the output buffers
NotifierNotifyGroup ==
    /\ proc = "running"
    /\ SumLen(sess, Len(sess)) <= MaxQueued
    /\ \E g \in GroupNames :
          /\ sess' = Notifier_notifyGroup(Net, g, Msg("NEWS")).sess
          /\ notifier_ret' = [op |-> "notifyGroup", group |-> g, clientId |-> "",
                              message |-> "NEWS"]
    /\ evicted' = NULL
    /\ UNCHANGED <<temp_sessions_, sessions_, groups, proc>>
    /\ UNCHANGED bookVars
    /\ UNCHANGED peer
    /\ UNCHANGED libVars

NextNotifier ==
    \/ accept_new
    \/ PeerClose
    \/ \E fd \in Fds : handle_write(fd)
    \/ LineAUTH
    \/ NotifierSubscribe
    \/ NotifierUnsubscribe
    \/ NotifierNotifyGroup

SpecNotifier == Init /\ [][NextNotifier]_vars


\* ------------------------------------------------- reactor, byte by byte
\* Server::run over connections whose bytes arrive in pieces, with the clock
\* running: handle_read appends what recv returns and dispatches the complete
\* lines, handle_write sends, and cleanup_stale ends the cycle. A peer sends
\* a prefix of one of Texts; a recv ends after any piece, so a line, and the
\* word "ping" or "bogus", can arrive in parts.
Texts ==
    {<<" ", "pi", "ng", "\r", "\n", " ", "\n", "\n", "bo", "gus", "\n", "pi">>,
     <<"auth", " ", "pawy", " ", "X", "\n", "pi", "ng", "\n">>}

\* the white space of trim and of operator>> in the "C" locale
IsSpace(c) == c \in {" ", "\r", "\t", "\n"}

\* inbuf.find('\n') from position i: the first position that holds a newline,
\* 0 when there is none (npos)
RECURSIVE find_newline(_, _)
find_newline(s, i) ==
    IF i > Len(s) THEN 0 ELSE IF s[i] = "\n" THEN i ELSE find_newline(s, i + 1)

\* trim: from the first to the last piece that is not white space
trim(s) ==
    LET inked == {i \in 1..Len(s) : ~IsSpace(s[i])}
    IN IF inked = {} THEN <<>>
       ELSE SubSeq(s, CHOOSE a \in inked : \A i \in inked : a <= i,
                      CHOOSE b \in inked : \A i \in inked : b >= i)

\* split_ws: while (iss >> tok) out.push_back(tok); word is the token being
\* read, the concatenation of the pieces since the last white space
RECURSIVE split_ws_from(_, _, _, _)
split_ws_from(s, i, word, out) ==
    IF i > Len(s) THEN (IF word = "" THEN out ELSE Append(out, word))
    ELSE IF IsSpace(s[i])
    THEN split_ws_from(s, i + 1, "", IF word = "" THEN out ELSE Append(out, word))
    ELSE split_ws_from(s, i + 1, word \o s[i], out)

split_ws(s) == split_ws_from(s, 1, "", <<>>)

\* the SEND processor
ProcSEND(N, sid, parts) ==
    IF ~N.sess[sid].is_authenticated THEN enqueue_reply(N, sid, Msg("UNAUTHORIZED"))
    ELSE IF Len(parts) < 3 THEN enqueue_reply(N, sid, Msg("ERR BAD_COMMAND"))
    ELSE enqueue_reply(Notifier_notifyGroup(N, parts[2], Msg(parts[3])), sid,
                       Msg("MESSAGE SENT"))

\* Server::dispatch: the processor registered under the command, or the
\* reply ERR UNKNOWN_CMD. No text of this specification holds a NEWL line
\* that passes the checks of its processor; a placement is LineNEWL
dispatch(N, sid, parts) ==
    CASE parts[1] = "PING" -> ProcPING(N, sid, parts)
      [] parts[1] = "DEBUG" -> ProcDEBUG(N, sid, parts)
      [] parts[1] = "AUTH" -> ProcAUTH(N, sid, parts)
      [] parts[1] = "SUB" -> ProcSUB(N, sid, parts, DispatchClientId(N, sid))
      [] parts[1] = "SEND" -> ProcSEND(N, sid, parts)
      [] parts[1] = "NEWL" -> NewlRejected(N, sid, NewlReject(N, sid, parts))
      [] OTHER -> enqueue_reply(N, sid, Msg("ERR UNKNOWN_CMD"))

\* process_session_messages that dispatches a blank line too
take_line_blankToo(R, sid, line) ==
    LET parts == FoldTokens(split_ws(line))
    IN [net |-> IF parts = <<>> THEN enqueue_reply(R.net, sid, Msg("ERR UNKNOWN_CMD"))
                ELSE dispatch(R.net, sid, parts),
        dispatched |-> Append(R.dispatched, parts)]

\* one turn of the loop of process_session_messages on the line cut off
\* inbuf: trim; a line that is empty then is skipped; the tokens are folded
\* and dispatched. R is [net, dispatched]: the session layer and the lines
\* dispatched for this session so far
take_line(R, sid, line) ==
    IF trim(line) = <<>> \/ split_ws(trim(line)) = <<>> THEN R
    ELSE LET parts == FoldTokens(split_ws(trim(line)))
         IN [net |-> dispatch(R.net, sid, parts),
             dispatched |-> Append(R.dispatched, parts)]

\* Server::process_session_messages: while inbuf holds a newline, cut the
\* line before it off inbuf and handle it
RECURSIVE process_session_messages(_, _)
process_session_messages(R, sid) ==
    LET inbuf == R.net.sess[sid].inbuf
        pos == find_newline(inbuf, 1)
    IN IF pos = 0 THEN R
       ELSE process_session_messages(
                take_line([R EXCEPT !.net.sess[sid].inbuf = SubSeq(@, pos + 1, Len(@))],
                          sid, SubSeq(inbuf, 1, pos - 1)),
                sid)

\* what the next recv on the session can return: one or more of the pieces
\* that follow, in a text, the ones received
NextChunks(sid) ==
    {SubSeq(t, Len(peer[sid].recvd) + 1, n) :
        <<t, n>> \in {x \in Texts \X (1..MaxTextLen) :
                        /\ Len(peer[sid].recvd) < x[2]
                        /\ x[2] <= Len(x[1])
                        /\ SubSeq(x[1], 1, Len(peer[sid].recvd)) = peer[sid].recvd}}

\* Server::handle_read(fd) when recv returns chunk and then EAGAIN:
\* inbuf.append, touch(), process_session_messages, and EPOLLOUT is asked
\* for if outbuf is not empty
ReadSome(N, fd, chunk, dispatched) ==
    LET sid == N.temp_sessions_[fd]
        R == process_session_messages(
                 [net |-> [N EXCEPT !.sess[sid].inbuf = @ \o chunk, !.sess[sid].idle = 0],
                  dispatched |-> dispatched], sid)
    IN [R EXCEPT !.net = IF @.sess[sid].outbuf # <<>> THEN modify_epoll_out(@, fd, TRUE)
                         ELSE @]

handle_read(fd) ==
    /\ proc = "running"
    /\ temp_sessions_[fd] # NULL
    /\ \E chunk \in NextChunks(temp_sessions_[fd]) :
          LET sid == temp_sessions_[fd]
              R == ReadSome(Net, fd, chunk, peer[sid].dispatched)
          IN /\ InstallNet(R.net)
             /\ peer' = [peer EXCEPT ![sid].recvd = @ \o chunk,
                                     ![sid].dispatched = R.dispatched]
    /\ UNCHANGED proc
    /\ UNCHANGED bookVars
    /\ UNCHANGED libVars

\* the steady clock moves on by TickSeconds: now() - last_active grows for
\* every open session. A session that is stale stays stale until it is
\* touched, and its idle time is not counted further
Tick ==
    /\ proc = "running"
    /\ \E sid \in 1..Len(sess) : sess[sid].fd # -1 /\ sess[sid].idle <= SESSION_TIMEOUT
    /\ sess' = [sid \in 1..Len(sess) |->
                   IF sess[sid].fd # -1 /\ sess[sid].idle <= SESSION_TIMEOUT
                   THEN [sess[sid] EXCEPT !.idle = @ + TickSeconds]
                   ELSE sess[sid]]
    /\ evicted' = NULL
    /\ notifier_ret' = NoNotifierCall
    /\ UNCHANGED <<temp_sessions_, sessions_, groups, peer, proc>>
    /\ UNCHANGED bookVars
    /\ UNCHANGED libVars

\* is_stale that counts a session idle for exactly its timeout as stale
is_stale_atTimeout(s) == s.idle >= SESSION_TIMEOUT

\* Session::is_stale: (now() - last_active) > timeout; every session is
\* constructed with SESSION_TIMEOUT
is_stale(s) == s.idle > SESSION_TIMEOUT

\* the second loop of cleanup_stale: remove_session for every descriptor of
\* to_close, in the order of the map
RECURSIVE remove_each(_, _)
remove_each(N, to_close) ==
    IF to_close = {} THEN N
    ELSE LET fd == CHOOSE f \in to_close : \A g \in to_close : f <= g
         IN remove_each(remove_session(N, fd), to_close \ {fd})

\* Server::cleanup_stale, the end of a cycle of Server::run
cleanup_stale ==
    /\ proc = "running"
    /\ LET to_close == {fd \in Fds : temp_sessions_[fd] # NULL
                                     /\ is_stale(sess[temp_sessions_[fd]])}
       IN /\ InstallNet(remove_each(Net, to_close))
          /\ peer' = [sid \in 1..MaxSessions |->
                         IF \E fd \in to_close : temp_sessions_[fd] = sid
                         THEN [peer[sid] EXCEPT !.swept = TRUE] ELSE peer[sid]]
    /\ UNCHANGED proc
    /\ UNCHANGED bookVars
    /\ UNCHANGED libVars

NextReactor ==
    \/ accept_new
    \/ PeerClose
    \/ \E fd \in Fds : handle_read(fd)
    \/ \E fd \in Fds : handle_write(fd)
    \/ Tick
    \/ cleanup_stale

SpecReactor == Init /\ [][NextReactor]_vars

\* the socket of every connection becomes writable again and again: a write
\* event that stays possible is delivered
SpecReactorFair == SpecReactor /\ \A fd \in Fds : WF_vars(handle_write(fd))

\* ------------------------------------------------- index specification
\* where the node that holds k stands before erase: it has two children, it
\* is the cached minimum or maximum, or none of these
ErasedNode(T, n) ==
    IF n = NULL THEN "none"
    ELSE IF T.nodes[n].left # NULL /\ T.nodes[n].right # NULL THEN "two children"
    ELSE IF n = T.m_min /\ n = T.m_max THEN "only"
    ELSE IF n = T.m_min THEN "min"
    ELSE IF n = T.m_max THEN "max"
    ELSE "inner"

IndexInsert ==
    /\ old_index = NoOldIndex
    /\ \E k \in 1..MaxKey, a \in AllocAddrs(index) :
          LET r == tradestack_AVLTree_insert(index, k, a)
          IN /\ index' = r.T
             /\ index_ret' = [NoCall EXCEPT !.op = "insert", !.k = k, !.res = r.created,
                                            !.n = r.n, !.keys = index_ret.keys \cup {k},
                                            !.rootBefore = index.m_root]
    /\ UNCHANGED <<old_index, side_book, side_ret>>
    /\ UNCHANGED <<bookVars, proc, netVars>>

IndexErase ==
    /\ old_index = NoOldIndex
    /\ \E k \in 1..MaxKey :
          LET r == tradestack_AVLTree_erase(index, k)
          IN /\ index' = r.T
             /\ index_ret' = [NoCall EXCEPT !.op = "erase", !.k = k, !.res = r.erased,
                                            !.keys = index_ret.keys \ {k},
                                            !.rootBefore = index.m_root,
                                            !.erasedNode =
                                                ErasedNode(index, tradestack_AVLTree_find(index, k))]
    /\ UNCHANGED <<old_index, side_book, side_ret>>
    /\ UNCHANGED <<bookVars, proc, netVars>>

IndexFind ==
    /\ old_index = NoOldIndex
    /\ \E k \in 1..MaxKey :
          index_ret' = [NoCall EXCEPT !.op = "find", !.k = k,
                                      !.n = tradestack_AVLTree_find(index, k),
                                      !.keys = index_ret.keys]
    /\ UNCHANGED <<index, old_index, side_book, side_ret>>
    /\ UNCHANGED <<bookVars, proc, netVars>>

IndexInorder ==
    /\ old_index = NoOldIndex
    /\ \E limit \in (0..(MaxKey + 1)) \cup {MAX_VISIT} :
          index_ret' = [NoCall EXCEPT !.op = "inorder", !.limit = limit,
                                      !.visited = tradestack_AVLTree_inorder(index, limit),
                                      !.keys = index_ret.keys]
    /\ UNCHANGED <<index, old_index, side_book, side_ret>>
    /\ UNCHANGED <<bookVars, proc, netVars>>

\* root = avl.insert(root, price, out) on an AVLTree<NodeType>; a run drives
\* one of the two tree classes
OldIndexInsert ==
    /\ index = EmptyTree
    /\ \E price \in 1..MaxKey :
          LET free == {a \in TreeAddrs : old_index.heap[a].st = "none"}
              r == AVLTree_insert(old_index.heap, old_index.root, price,
                                  IF free = {} THEN NULL
                                  ELSE CHOOSE a \in free : \A b \in free : a <= b,
                                  TreeFuel)
          IN /\ old_index' = [heap |-> r.heap, root |-> r.root, out |-> r.out]
             /\ index_ret' = [NoCall EXCEPT !.op = "old insert", !.k = price,
                                            !.res = price \notin index_ret.keys,
                                            !.keys = index_ret.keys \cup {price},
                                            !.n = r.out,
                                            !.rootBefore = old_index.root]
    /\ UNCHANGED <<index, side_book, side_ret>>
    /\ UNCHANGED <<bookVars, proc, netVars>>

NextAvl == IndexInsert \/ IndexErase \/ IndexFind \/ IndexInorder \/ OldIndexInsert

SpecAvl == Init /\ [][NextAvl]_vars

\* --------------------------------------------- side book specification
SideInsert ==
    /\ side_book.m_orderCnt < MaxLibOrders
    /\ \E id \in 1..MaxOrderId, cid \in {"", "C"}, px \in LibPrices :
          LET free == AllocAddrs(side_book.m_avl)
              r == tradestack_SideTree_insert(side_book, LibOrder(id, cid, px),
                                              CHOOSE a \in free : \A b \in free : a <= b)
          IN /\ side_book' = r.S
             /\ side_ret' = [op |-> "insert", order |-> LibOrder(id, cid, px), node |-> r.node,
                             length |-> 0, out |-> <<>>, before |-> side_book.m_orderCnt]
    /\ UNCHANGED <<index, old_index, index_ret>>
    /\ UNCHANGED <<bookVars, proc, netVars>>

SideRemove ==
    /\ \E id \in 1..MaxOrderId, cid \in {"", "C"}, px \in LibPrices :
          LET r == tradestack_SideTree_remove(side_book, LibOrder(id, cid, px))
          IN /\ side_book' = r.S
             /\ side_ret' = [op |-> "remove", order |-> LibOrder(id, cid, px), node |-> r.node,
                             length |-> 0, out |-> <<>>, before |-> side_book.m_orderCnt]
    /\ UNCHANGED <<index, old_index, index_ret>>
    /\ UNCHANGED <<bookVars, proc, netVars>>

SideFind ==
    /\ \E px \in LibPrices :
          side_ret' = [op |-> "find", order |-> LibOrder(0, "", px),
                       node |-> tradestack_SideTree_find(side_book, px), length |-> 0, out |-> <<>>,
                       before |-> side_book.m_orderCnt]
    /\ UNCHANGED <<index, old_index, index_ret, side_book>>
    /\ UNCHANGED <<bookVars, proc, netVars>>

SideTop ==
    /\ \E length \in (-1)..(MaxLibPrice + 1) :
          side_ret' = [op |-> "top", order |-> LibOrder(0, "", 0), node |-> NULL,
                       length |-> length, out |-> tradestack_SideTree_top(side_book, length),
                       before |-> side_book.m_orderCnt]
    /\ UNCHANGED <<index, old_index, index_ret, side_book>>
    /\ UNCHANGED <<bookVars, proc, netVars>>

setSide ==
    /\ \E s \in Sides : side_book' = [side_book EXCEPT !.m_side = s]
    /\ side_ret' = [op |-> "setSide", order |-> LibOrder(0, "", 0), node |-> NULL,
                    length |-> 0, out |-> <<>>, before |-> side_book.m_orderCnt]
    /\ UNCHANGED <<index, old_index, index_ret>>
    /\ UNCHANGED <<bookVars, proc, netVars>>

NextSide == SideInsert \/ SideRemove \/ SideFind \/ SideTop \/ setSide

SpecSide == Init /\ [][NextSide]_vars


\* ============================================================== claims
\* the orders of one side that are linked in a level list
RestingBuy == RestingOf(heap, orders, "Buy")
RestingSell == RestingOf(heap, orders, "Sell")
RestingPrices(S) == {orders[o].price : o \in S}

\* the order the last placeOrder call was given, and for a fill of that call
\* the order that was resting before the call (the maker)
Incoming == Len(orders)
Maker(f) == IF f.buy = Incoming THEN f.sell ELSE f.buy

\* C1: after any placeOrder has returned, the buy side is empty, or the sell
\* side is empty, or the highest resting buy price is strictly below the
\* lowest resting sell price.
C1_BookUncrossed ==
    proc = "running" =>
        \/ RestingBuy = {}
        \/ RestingSell = {}
        \/ SetMax(RestingPrices(RestingBuy)) < SetMin(RestingPrices(RestingSell))

\* C2: every fill of a placement executes at the limit price of the order
\* that was resting before the placement, whichever side the incoming order
\* is on, and last_trade is the price and size of the last fill at that price.
C2_FillAtMakerPrice ==
    /\ \A i \in 1..Len(fills) : fills[i].price = orders[Maker(fills[i])].price
    /\ fills # <<>> =>
          /\ stats.last_trade_price = orders[Maker(fills[Len(fills)])].price
          /\ stats.last_trade_size = fills[Len(fills)].qty

\* C3: every fill takes a buy order from the highest-priced buy level that
\* holds orders at that moment and a sell order from the lowest-priced sell
\* level that holds orders, and the matching run goes on to the next level:
\* when placeOrder returns with the incoming order not fully filled, no
\* resting order of the other side is left at a price that crosses it.
C3_PricePriority ==
    /\ \A i \in 1..Len(fills) :
          /\ fills[i].buy \in fills[i].book.restingBuy
          /\ fills[i].sell \in fills[i].book.restingSell
          /\ orders[fills[i].buy].price = fills[i].book.bestBuy
          /\ orders[fills[i].sell].price = fills[i].book.bestSell
    /\ (proc = "running" /\ fills # <<>> /\ orders[Incoming].remaining > 0) =>
          IF orders[Incoming].side = "Sell"
          THEN \A o \in RestingBuy : orders[o].price < orders[Incoming].price
          ELSE \A o \in RestingSell : orders[o].price > orders[Incoming].price

\* C4: an order placed before another one at the same price on the same side
\* is consumed first: whenever a fill takes quantity from an order of a side,
\* no order of that side placed earlier at the same price is still resting
\* with quantity left at that moment, so an order that was partially filled
\* stays at the head of its level.
C4_FifoWithinLevel ==
    \A i \in 1..Len(fills) :
       LET f == fills[i]
       IN /\ orders[f.buy].side = "Buy" =>
                \A o \in f.book.restingBuy :
                   orders[o].price = orders[f.buy].price => f.buy <= o
          /\ orders[f.sell].side = "Sell" =>
                \A o \in f.book.restingSell :
                   orders[o].price = orders[f.sell].price => f.sell <= o

\* C5: every order satisfies filled + remaining = initial quantity, every
\* order resting in a book has remaining > 0, and an order whose remaining
\* quantity reached 0 has left its book when placeOrder returns.
C5_RestingOrdersOpen ==
    \A o \in 1..Len(orders) :
       /\ orders[o].filled + orders[o].remaining = orders[o].quantity
       /\ InLevel(heap, orders, o) => orders[o].remaining > 0
       /\ orders[o].remaining = 0 => ~InLevel(heap, orders, o)

RECURSIVE SumFilled(_, _)
SumFilled(side, i) ==
    IF i = 0 THEN 0
    ELSE (IF orders[i].side = side THEN orders[i].filled ELSE 0) + SumFilled(side, i - 1)

\* C6: the quantity filled on buy orders equals the quantity filled on sell
\* orders, and every fill is between exactly one buy order and one sell
\* order, both reduced by the same quantity at the same price.
C6_Conservation ==
    /\ SumFilled("Buy", Len(orders)) = SumFilled("Sell", Len(orders))
    /\ \A i \in 1..Len(fills) :
          /\ orders[fills[i].buy].side = "Buy"
          /\ orders[fills[i].sell].side = "Sell"
          /\ fills[i].qty > 0

\* ------------------------------------------------------ session claims
\* what a step has appended to the output buffer of session sid
Appended(sid) ==
    SubSeq(sess'[sid].outbuf, Len(sess[sid].outbuf) + 1, Len(sess'[sid].outbuf))

ExecLine(q, p) == [k |-> "EXEC", q |-> q, p |-> p]

\* the session layer after a step
NetNext == [temp_sessions_ |-> temp_sessions_', sessions_ |-> sessions_', sess |-> sess',
            groups |-> groups', evicted |-> NULL]

\* C7: a step that places an order appends, for every fill of the placement,
\* exactly one EXEC line with the fill's quantity and price to the session
\* registered for the buyer and exactly one to the session registered for the
\* seller, and no other EXEC line; when the placement made no fill, no EXEC
\* line is appended to any session and the only thing appended anywhere is
\* the REQUEST_MADE of the submitter.
C7_ExecPerFill ==
    [][Len(orders') > Len(orders) =>
          /\ \A sid \in 1..Len(sess), q \in Qtys, p \in Prices :
                Cardinality({i \in DOMAIN Appended(sid) : Appended(sid)[i] = ExecLine(q, p)})
                = Cardinality({x \in (1..Len(fills')) \X {"buy", "sell"} :
                                  /\ fills'[x[1]].qty = q
                                  /\ fills'[x[1]].price = p
                                  /\ Registered(Net, orders'[fills'[x[1]][x[2]]].clientId) = sid})
          /\ fills' = <<>> =>
                \A sid \in 1..Len(sess) : Appended(sid) \in {<<>>, <<Msg("REQUEST_MADE")>>}
      ]_vars

\* C8: when a session B authenticates with a client_id registered to another
\* session A, the step closes A's descriptor, leaves A in neither table and
\* registers B under the client_id; a closed session never gets anything
\* appended again, and in every state notifyUser for a registered client_id
\* enqueues to the registered session (and asks for its socket to be watched
\* for writing) and to no other, which is open and is the one the
\* per-connection table holds under its descriptor.
C8_NewestLoginWins ==
    /\ [](\A cid \in ClientIds :
             sessions_[cid] # NULL =>
                /\ sess[sessions_[cid]].fd \in Fds
                /\ temp_sessions_[sess[sessions_[cid]].fd] = sessions_[cid]
                /\ Notifier_notifyUser(Net, cid, ExecLine(1, 1)).sess
                   = [sess EXCEPT ![sessions_[cid]].outbuf = Append(@, ExecLine(1, 1)),
                                  ![sessions_[cid]].epollout = TRUE])
    /\ [][/\ \A cid \in ClientIds :
                (sessions_[cid] # NULL /\ sessions_'[cid] # NULL
                 /\ sessions_'[cid] # sessions_[cid]) =>
                   /\ sess'[sessions_[cid]].fd = -1
                   /\ \A fd \in Fds : temp_sessions_'[fd] # sessions_[cid]
                   /\ \A c \in ClientIds : sessions_'[c] # sessions_[cid]
                   /\ Notifier_notifyUser(NetNext, cid, ExecLine(1, 1)).sess
                      = [sess' EXCEPT ![sessions_'[cid]].outbuf = Append(@, ExecLine(1, 1)),
                                      ![sessions_'[cid]].epollout = TRUE]
          /\ \A sid \in 1..Len(sess) : sess[sid].fd = -1 => sess'[sid] = sess[sid]
        ]_vars

\* a login has just superseded another one: the session that held the
\* client_id is closed and the newcomer is registered and told OK AUTH
C8_Witness ==
    /\ evicted # NULL
    /\ sess[evicted].fd = -1
    /\ \E cid \in ClientIds :
          /\ sessions_[cid] # NULL
          /\ sessions_[cid] # evicted
          /\ sess[sessions_[cid]].client_id = cid
          /\ sess[sessions_[cid]].outbuf = <<Msg("OK AUTH")>>

\* C9 as stated: no session is referenced by both tables.
C9_TablesDisjoint ==
    \A cid \in ClientIds :
       sessions_[cid] # NULL => \A fd \in Fds : temp_sessions_[fd] # sessions_[cid]

\* C9, amended: the per-connection table holds every open session from
\* accept to removal, authenticated or not; the authenticated table holds a
\* subset of them: every session it references is open, is held by the
\* per-connection table under its descriptor, and carries the client_id it is
\* registered under; and every open session is held by the per-connection
\* table.
C9_AuthenticatedWithinConnections ==
    /\ \A cid \in ClientIds :
          sessions_[cid] # NULL =>
             /\ sess[sessions_[cid]].fd \in Fds
             /\ temp_sessions_[sess[sessions_[cid]].fd] = sessions_[cid]
             /\ sess[sessions_[cid]].is_authenticated
             /\ sess[sessions_[cid]].client_id = cid
    /\ \A sid \in 1..Len(sess) :
          sess[sid].fd # -1 => temp_sessions_[sess[sid].fd] = sid

\* an authenticated session that is in both tables, next to a session that
\* is only in the per-connection table
C9_Witness ==
    \E cid \in ClientIds, fd \in Fds, other \in Fds :
       /\ sessions_[cid] # NULL
       /\ temp_sessions_[fd] = sessions_[cid]
       /\ temp_sessions_[other] # NULL
       /\ \A c \in ClientIds : sessions_[c] # temp_sessions_[other]

\* C10: every order that enters a book carries a non-empty client_id, which
\* is the one a session is registered under in the authenticated table; and
\* a line handled for a session that has no client_id places no order.
C10_OrdersOnlyAfterAuth ==
    [][Len(orders') > Len(orders) =>
          /\ orders'[Len(orders')].clientId # NoCid
          /\ Registered(Net, orders'[Len(orders')].clientId) # NULL
          /\ \A sid \in 1..Len(sess) :
                Appended(sid) # <<>> => sess[sid].client_id # NoCid
      ]_vars

\* the replies of the NEWL processor to a line that fails one of its checks
NewlErrors ==
    {Msg("ERR BAD_COMMAND\n USAGE: NEWL <BUY|SELL> <SYMBOL> <QTY> <PRICE>"),
     Msg("ERR BAD_SIDE"), Msg("ERR BAD_SYMBOL"), Msg("ERR BAD_QTY"), Msg("ERR BAD_PRICE")}

\* C11: a step in which a NEWL line is answered with one of the ERR replies
\* of the processor appends exactly that one reply to the output buffer of
\* the session that sent the line, asks for its socket to be watched for
\* writing and changes nothing else: no order is
\* created, the books, the market statistics and the set of instruments are
\* as before, both session tables and every other session are as before,
\* and the session stays open and keeps its authentication state.
C11_RejectedNewlChangesNothing ==
    [][\A sid \in 1..Len(sess) :
          (\E i \in DOMAIN Appended(sid) : Appended(sid)[i] \in NewlErrors) =>
             /\ Len(Appended(sid)) = 1
             /\ sess' = [sess EXCEPT ![sid].outbuf = Append(@, Appended(sid)[1]),
                                     ![sid].epollout = TRUE]
             /\ sess'[sid].fd \in Fds
             /\ temp_sessions_'[sess'[sid].fd] = sid
             /\ UNCHANGED <<temp_sessions_, sessions_, groups>>
             /\ UNCHANGED bookVars
      ]_vars

\* an authenticated session that has an order in the book has just been
\* answered with an ERR reply of the NEWL processor
C11_Witness ==
    \E sid \in 1..Len(sess) :
       /\ sess[sid].outbuf # <<>>
       /\ sess[sid].outbuf[Len(sess[sid].outbuf)] \in NewlErrors
       /\ sess[sid].fd \in Fds
       /\ sess[sid].client_id # NoCid
       /\ \E o \in 1..Len(orders) : InLevel(heap, orders, o)


\* ------------------------------------------------------ side book claims
\* the prices the direct map of a tradestack::SideTree has a level for, the
\* number of orders in those levels, and the keys of its ordered index
LevelPrices(S) == {p \in LibPrices : S.m_levels[p].present}
RECURSIVE SumLevels(_, _)
SumLevels(S, P) ==
    IF P = {} THEN 0
    ELSE LET p == CHOOSE x \in P : TRUE IN Len(S.m_levels[p].level) + SumLevels(S, P \ {p})
LiveKeys(T) == {T.nodes[a].key : a \in {b \in TreeAddrs : T.nodes[b].st = "live"}}

\* C12: after any sequence of SideTree insert and remove calls, size() (the
\* order counter) equals the total number of orders held across all price
\* levels of that side, and empty() holds exactly when that total is zero.
\* Stated for the two sides of an Instrument (SideTree<PriceLevelNode>).
C12_SizeCountsOrders ==
    proc = "running" =>
        /\ buy_side.orderCount = Cardinality(RestingBuy)
        /\ sell_side.orderCount = Cardinality(RestingSell)
        /\ (buy_side.orderCount = 0) <=> (RestingBuy = {})
        /\ (sell_side.orderCount = 0) <=> (RestingSell = {})

\* the same statement for a tradestack::SideTree
SideBookCountsOrders ==
    /\ side_book.m_orderCnt = SumLevels(side_book, LevelPrices(side_book))
    /\ (side_book.m_orderCnt = 0) <=> (\A p \in LibPrices : side_book.m_levels[p].level = <<>>)

SeqRange(q) == {q[i] : i \in 1..Len(q)}

\* C13: after any sequence of SideTree insert and remove calls, the set of
\* prices in the ordered index equals the set of keys of the price-to-level
\* map, and every level in the map holds at least one order: removing the
\* last order at a price erases that price from both structures (remove
\* returns null), and find(p) returns a level exactly for the prices at which
\* some order rests.
C13_IndexAndMapAgree ==
    /\ ~side_book.m_avl.ub
    /\ SeqRange(tradestack_AVLTree_inorder(side_book.m_avl, MAX_VISIT)) = LevelPrices(side_book)
    /\ LiveKeys(side_book.m_avl) = LevelPrices(side_book)
    /\ \A p \in LevelPrices(side_book) : side_book.m_levels[p].level # <<>>
    /\ \A p \in LibPrices :
          tradestack_SideTree_find(side_book, p)
              = IF side_book.m_levels[p].level # <<>> THEN p ELSE NULL
    /\ side_ret.op \in {"remove", "find"} =>
          side_ret.node = IF side_ret.order.price \in LevelPrices(side_book)
                          THEN side_ret.order.price ELSE NULL

\* remove has just taken the last order of a price out while another price
\* keeps its level, and returned null
C13_Witness ==
    /\ side_ret.op = "remove"
    /\ side_ret.node = NULL
    /\ side_ret.before = side_book.m_orderCnt + 1
    /\ side_ret.order.price \notin LevelPrices(side_book)
    /\ LevelPrices(side_book) # {}

\* low and high of one side of an Instrument name the live nodes with the
\* lowest and the highest price at which an order of the side rests
RangeIsExtremes(side, resting) ==
    IF resting = {} THEN side.low = NULL /\ side.high = NULL
    ELSE /\ side.low # NULL /\ side.high # NULL
         /\ heap[side.low].st = "live" /\ heap[side.high].st = "live"
         /\ heap[side.low].price = SetMin(RestingPrices(resting))
         /\ heap[side.high].price = SetMax(RestingPrices(resting))

\* C14: after any sequence of SideTree insert and remove calls, low() and
\* high() refer to the levels with the minimum and the maximum price among
\* the levels currently in the book (so the best buy is high() and the best
\* sell is low()), and both are null exactly when the book holds no orders;
\* in particular after the removal that empties the current extreme level
\* they refer to the next-best level.  Stated for the two sides of an
\* Instrument (SideTree<PriceLevelNode>).
C14_RangeIsExtremes ==
    proc = "running" =>
        /\ RangeIsExtremes(buy_side, RestingBuy)
        /\ RangeIsExtremes(sell_side, RestingSell)

\* the same statement for a tradestack::SideTree
SideBookRangeIsExtremes ==
    IF LevelPrices(side_book) = {} THEN side_book.m_low = NULL /\ side_book.m_high = NULL
    ELSE /\ side_book.m_low = SetMin(LevelPrices(side_book))
         /\ side_book.m_high = SetMax(LevelPrices(side_book))
         /\ side_book.m_levels[side_book.m_low].price = side_book.m_low
         /\ side_book.m_levels[side_book.m_high].price = side_book.m_high


\* ---------------------------------------------------------- index claims
\* C15: after any sequence of insert and erase calls on the ordered price
\* index, findMin() and findMax() return the nodes holding the smallest and
\* the largest key that a full in-order scan visits, and both return null
\* exactly when the index is empty; this holds also right after erasing the
\* current minimum or maximum and after erasing a node with two children
\* (where the successor's key is copied into the node).
C15_MinMaxAgreeWithScan ==
    LET scan == tradestack_AVLTree_inorder(index, MAX_VISIT)
        mn == tradestack_AVLTree_findMin(index)
        mx == tradestack_AVLTree_findMax(index)
    IN /\ ~index.ub
       /\ (mn = NULL) <=> (scan = <<>>)
       /\ (mx = NULL) <=> (scan = <<>>)
       /\ (index.m_root = NULL) <=> (scan = <<>>)
       /\ scan # <<>> =>
             /\ index.nodes[mn].st = "live" /\ index.nodes[mx].st = "live"
             /\ index.nodes[mn].key = SetMin(SeqRange(scan))
             /\ index.nodes[mx].key = SetMax(SeqRange(scan))

\* erase has just taken out a node with two children whose in-order
\* successor was the cached maximum: the node now holds the largest key
C15_Witness ==
    /\ index_ret.op = "erase"
    /\ index_ret.res
    /\ index_ret.erasedNode = "two children"
    /\ tradestack_AVLTree_findMax(index) = index.m_root
    /\ tradestack_AVLTree_findMin(index) # index.m_root

RECURSIVE SubtreeKeys(_, _)
SubtreeKeys(N, n) ==
    IF n = NULL THEN {}
    ELSE {N[n].key} \cup SubtreeKeys(N, N[n].left) \cup SubtreeKeys(N, N[n].right)

StoredHeight(N, n) == IF n = NULL THEN 0 ELSE N[n].height

\* the nodes N under root are a balanced search tree over exactly keys
BalancedSearchTree(N, root, keys) ==
    LET Live == {a \in TreeAddrs : N[a].st = "live"}
    IN /\ SubtreeKeys(N, root) = keys
       /\ Cardinality(Live) = Cardinality(keys)
       /\ \A n \in Live :
             /\ \A c \in {N[n].left, N[n].right} \ {NULL} : c \in Live
             /\ \A k \in SubtreeKeys(N, N[n].left) : k < N[n].key
             /\ \A k \in SubtreeKeys(N, N[n].right) : N[n].key < k
             /\ N[n].height = 1 + Max2(StoredHeight(N, N[n].left), StoredHeight(N, N[n].right))
             /\ StoredHeight(N, N[n].left) - StoredHeight(N, N[n].right) \in {-1, 0, 1}

\* every parent pointer names the node whose child the node is
ParentsAgree(N, root) ==
    /\ root # NULL => N[root].parent = NULL
    /\ \A n \in {a \in TreeAddrs : N[a].st = "live"} :
          \A c \in {N[n].left, N[n].right} \ {NULL} : N[c].parent = n

\* the nodes of an AVLTree<NodeType>, which carry price for key
OldNodes == [a \in TreeAddrs |-> [key |-> old_index.heap[a].price,
                                  height |-> old_index.heap[a].height,
                                  left |-> old_index.heap[a].left,
                                  right |-> old_index.heap[a].right,
                                  st |-> old_index.heap[a].st]]

\* C16: after every insert and every erase on the ordered price index, the
\* tree is a binary search tree over exactly the keys inserted and not
\* erased, every node's stored height equals 1 + the maximum of its
\* children's heights, every node's balance factor (left height - right
\* height) is in {-1, 0, +1}, and every node's parent pointer refers to its
\* actual parent.  Stated for tradestack::AVLTree and, parent pointers apart
\* (its nodes have none), for insert of AVLTree<NodeType>.
C16_BalancedSearchTree ==
    IF old_index = NoOldIndex
    THEN /\ ~index.ub
         /\ BalancedSearchTree(index.nodes, index.m_root, index_ret.keys)
         /\ ParentsAgree(index.nodes, index.m_root)
    ELSE BalancedSearchTree(OldNodes, old_index.root, index_ret.keys)

\* erase has just rotated at the root: the node that was the root is still
\* in the tree and is not the root any more
C16_Witness ==
    /\ index_ret.op = "erase"
    /\ index_ret.res
    /\ index_ret.rootBefore # index.m_root
    /\ index.nodes[index_ret.rootBefore].st = "live"
    /\ index.nodes[index_ret.rootBefore].key \in index_ret.keys

\* C17: insert(p) on the ordered price index is idempotent: if p is absent
\* it adds p and reports created = true; if p is already present it reports
\* created = false, returns the existing node, and leaves the key set, the
\* tree shape (including the root) and the cached minimum/maximum unchanged.
\* Stated for tradestack::AVLTree and for insert of AVLTree<NodeType>, which
\* reports the node through out and has no created flag.
C17_InsertIdempotent ==
    [][/\ index_ret'.op = "insert" =>
             LET k == index_ret'.k
                 n == index_ret'.n
             IN IF k \in SubtreeKeys(index.nodes, index.m_root)
                THEN /\ ~index_ret'.res
                     /\ index' = index
                     /\ n # NULL /\ index.nodes[n].st = "live" /\ index.nodes[n].key = k
                ELSE /\ index_ret'.res
                     /\ SubtreeKeys(index'.nodes, index'.m_root)
                            = SubtreeKeys(index.nodes, index.m_root) \cup {k}
                     /\ n # NULL /\ index'.nodes[n].st = "live" /\ index'.nodes[n].key = k
                     /\ index.nodes[n].st = "free"
       /\ index_ret'.op = "old insert" =>
             LET k == index_ret'.k
                 n == index_ret'.n
             IN IF k \in SubtreeKeys(OldNodes, old_index.root)
                THEN /\ old_index'.heap = old_index.heap
                     /\ old_index'.root = old_index.root
                     /\ n # NULL /\ old_index.heap[n].st = "live" /\ old_index.heap[n].price = k
                ELSE /\ SubtreeKeys(OldNodes', old_index'.root)
                            = SubtreeKeys(OldNodes, old_index.root) \cup {k}
                     /\ n # NULL /\ old_index'.heap[n].st = "live"
                     /\ old_index'.heap[n].price = k
                     /\ old_index.heap[n].st = "none"]_vars

\* insert has just been given a key that a node below the root holds, in an
\* index of at least three keys
C17_Witness ==
    /\ index_ret.op = "insert"
    /\ ~index_ret.res
    /\ index_ret.n # NULL
    /\ index_ret.n # index.m_root
    /\ index.nodes[index_ret.n].key = index_ret.k
    /\ Cardinality(index_ret.keys) >= 3

\* C18: erase(p) on the ordered price index returns true exactly when p was
\* present; afterwards find(p) returns null and every other key that was
\* present is still found, including when the erased node has two children
\* and is overwritten by its in-order successor; erase of an absent key
\* returns false and changes nothing.
C18_EraseRemovesOnlyTheKey ==
    [][index_ret'.op = "erase" =>
          LET k == index_ret'.k
              K == SubtreeKeys(index.nodes, index.m_root)
          IN /\ index_ret'.res <=> k \in K
             /\ tradestack_AVLTree_find(index', k) = NULL
             /\ \A j \in K \ {k} :
                   /\ tradestack_AVLTree_find(index', j) # NULL
                   /\ index'.nodes[tradestack_AVLTree_find(index', j)].st = "live"
                   /\ index'.nodes[tradestack_AVLTree_find(index', j)].key = j
             /\ \A j \in (1..MaxKey) \ K : tradestack_AVLTree_find(index', j) = NULL
             /\ k \notin K => index' = index]_vars

\* erase has just taken out a key held by a node with two children, and the
\* index still holds three keys
C18_Witness ==
    /\ index_ret.op = "erase"
    /\ index_ret.res
    /\ index_ret.erasedNode = "two children"
    /\ Cardinality(index_ret.keys) = 3
    /\ index_ret.k \notin index_ret.keys

\* C19: inorder(visit, limit) on an index holding L keys calls visit exactly
\* min(limit, L) times, on the min(limit, L) smallest keys, in strictly
\* ascending key order, and does not modify the index.
C19_InorderVisitsSmallest ==
    [][index_ret'.op = "inorder" =>
          LET K == SubtreeKeys(index.nodes, index.m_root)
              limit == index_ret'.limit
              visited == index_ret'.visited
          IN /\ index' = index
             /\ Len(visited) = Min2(limit, Cardinality(K))
             /\ \A i \in 1..(Len(visited) - 1) : visited[i] < visited[i + 1]
             /\ SeqRange(visited) = {k \in K : Cardinality({j \in K : j < k}) < limit}]_vars

\* inorder has just stopped at a limit of two or more in an index that holds
\* more keys than the limit and is not a single path
C19_Witness ==
    /\ index_ret.op = "inorder"
    /\ index_ret.limit >= 2
    /\ Len(index_ret.visited) = index_ret.limit
    /\ Cardinality(index_ret.keys) > index_ret.limit
    /\ index.nodes[index.m_root].left # NULL
    /\ index.nodes[index.m_root].right # NULL


\* C20: top(n) on a side book with K price levels returns exactly min(n, K)
\* orders (none for n <= 0), one per level, each the head (earliest) order of
\* its level, ordered from the highest price downward on a Buy book and from
\* the lowest price upward on a Sell book; it does not modify the book.
C20_TopHeadsBestFirst ==
    [][side_ret'.op = "top" =>
          LET P == LevelPrices(side_book)
              n == side_ret'.length
              out == side_ret'.out
          IN /\ side_book' = side_book
             /\ Len(out) = IF n <= 0 THEN 0 ELSE Min2(n, Cardinality(P))
             /\ \A i \in 1..Len(out) :
                   /\ out[i].price \in P
                   /\ out[i].order = Head(side_book.m_levels[out[i].price].level)
                   /\ IF side_book.m_side = "Buy"
                      THEN Cardinality({p \in P : p > out[i].price}) = i - 1
                      ELSE Cardinality({p \in P : p < out[i].price}) = i - 1]_vars

\* top(2) has just answered on a Buy book of three price levels
C20_Witness ==
    /\ side_ret.op = "top"
    /\ side_ret.length = 2
    /\ Len(side_ret.out) = 2
    /\ side_book.m_side = "Buy"
    /\ Cardinality(LevelPrices(side_book)) = 3
    /\ side_ret.out[1].price > side_ret.out[2].price

\* ------------------------------------------------ cancel and time priority
\* the positions of the level at the price of order whose entry remove would
\* take: the order id is equal and, when the given client order id is not
\* empty, the client order id is equal too
Matching(S, order) ==
    {i \in 1..Len(S.m_levels[order.price].level) :
        /\ S.m_levels[order.price].level[i][1] = order.id
        /\ order.clientOrderId # "" =>
              S.m_levels[order.price].level[i][2] = order.clientOrderId}

\* C21: cancelling (SideTree remove) an order that is not resting, because no
\* level exists at its price or no order in that level matches it, reports
\* that no removal occurred (the null result) and leaves the order counter,
\* every level's contents, the ordered index and the cached low/high
\* unchanged; hence removing the same order twice leaves the book in the
\* same state as removing it once.
C21_CancelAbsentChangesNothing ==
    [][(side_ret'.op = "remove" /\ Matching(side_book, side_ret'.order) = {}) =>
          /\ side_book' = side_book
          /\ side_ret'.node = NULL]_vars

\* the part of C21 about the state of a tradestack::SideTree: a remove that
\* finds nothing to take leaves the book as it is, and a second remove of the
\* order a first remove has just taken finds nothing to take unless the level
\* holds another entry of the same ids
SideBookCancelAbsentKeepsBook ==
    [][(side_ret'.op = "remove" /\ Matching(side_book, side_ret'.order) = {}) =>
          side_book' = side_book]_vars

\* q without its i-th element
DropAt(q, i) == SubSeq(q, 1, i - 1) \o SubSeq(q, i + 1, Len(q))

\* C22: SideTree remove looks only in the level at the given order's price
\* and erases the first order in FIFO order whose order id equals the given
\* id, additionally requiring equal client order id when the given client
\* order id is non-empty; at most one order is removed per call and an order
\* whose id matches but whose client order id differs from a non-empty given
\* one is not removed.
C22_RemoveTakesFirstMatch ==
    [][side_ret'.op = "remove" =>
          LET order == side_ret'.order
              M == Matching(side_book, order)
              level == side_book.m_levels[order.price].level
          IN /\ \A p \in LibPrices \ {order.price} :
                   side_book'.m_levels[p] = side_book.m_levels[p]
             /\ IF M = {}
                THEN /\ side_book'.m_levels[order.price] = side_book.m_levels[order.price]
                     /\ side_book'.m_orderCnt = side_book.m_orderCnt
                ELSE /\ side_book'.m_levels[order.price].level
                           = DropAt(level, CHOOSE i \in M : \A j \in M : i <= j)
                     /\ side_book'.m_orderCnt = side_book.m_orderCnt - 1]_vars

\* remove has just taken the order <<id, "C">> from behind an order of the
\* same id and another client order id, which stays at the head of the level
C22_Witness ==
    /\ side_ret.op = "remove"
    /\ side_ret.order.clientOrderId = "C"
    /\ side_ret.before = side_book.m_orderCnt + 1
    /\ side_ret.node = side_ret.order.price
    /\ side_book.m_levels[side_ret.order.price].level = <<(<<side_ret.order.id, "">>)>>

\* C23: within a price level the orders are kept in insertion order under any
\* sequence of inserts and removes: inserting at an existing price returns
\* the same level with the new order at the tail, and removing one order from
\* a level holding several leaves the others in their original relative
\* order and returns that same level. Stated for the two sides of an
\* Instrument (SideTree<PriceLevelNode>): the list of every level node holds
\* its orders in the order of their arrival, and two resting orders of one
\* side at one price are in the list of one and the same node, the earlier
\* one in front.
C23_LevelKeepsInsertionOrder ==
    /\ \A n \in Addrs : heap[n].st = "live" =>
          \A i, j \in 1..Len(heap[n].level) :
             i < j => heap[n].level[i] < heap[n].level[j]
    /\ proc = "running" =>
          \A o1 \in RestingBuy \cup RestingSell :
             \A o2 \in RestingBuy \cup RestingSell :
                (o1 < o2 /\ orders[o1].side = orders[o2].side
                         /\ orders[o1].price = orders[o2].price) =>
                   /\ orders[o1].level_posn = orders[o2].level_posn
                   /\ \E i, j \in 1..Len(heap[orders[o1].level_posn].level) :
                         /\ i < j
                         /\ heap[orders[o1].level_posn].level[i] = o1
                         /\ heap[orders[o1].level_posn].level[j] = o2

\* the same statement for a tradestack::SideTree, call by call: insert
\* returns the level at the order's price, which is the level as it was with
\* the order appended; a remove that takes an order from a level holding
\* several returns that level, which is the level as it was without one entry
SideBookLevelKeepsInsertionOrder ==
    [][/\ side_ret'.op = "insert" =>
             /\ side_ret'.node = side_ret'.order.price
             /\ side_book'.m_levels[side_ret'.order.price].level
                   = Append(side_book.m_levels[side_ret'.order.price].level,
                            <<side_ret'.order.id, side_ret'.order.clientOrderId>>)
       /\ (side_ret'.op = "remove" /\ side_book'.m_orderCnt # side_book.m_orderCnt
             /\ Len(side_book.m_levels[side_ret'.order.price].level) > 1) =>
             /\ side_ret'.node = side_ret'.order.price
             /\ \E i \in 1..Len(side_book.m_levels[side_ret'.order.price].level) :
                   side_book'.m_levels[side_ret'.order.price].level
                      = DropAt(side_book.m_levels[side_ret'.order.price].level, i)]_vars

\* ------------------------------------------------- market statistics claims
\* no order has been filled yet: the next fill is the first one ever
NoFillYet == \A o \in 1..Len(orders) : orders[o].filled = 0

\* the F1_UPDATE block of the i-th fill of the last placement: the
\* statistics as updatePrices left them
AfterFill(i) == notes'[3 * i - 2]

C25_LowIsMinimum ==
    [][(Len(orders') > Len(orders) /\ fills' # <<>>) =>
          stats'.low = SetMin({fills'[j].price : j \in 1..Len(fills')}
                              \cup (IF NoFillYet THEN {} ELSE {stats.low}))]_vars

RECURSIVE SumQty(_, _)
\* the sum of the quantities of the fills fs[1..n]
SumQty(fs, n) == IF n = 0 THEN 0 ELSE fs[n].qty + SumQty(fs, n - 1)

RECURSIVE SumValue(_, _)
\* the sum of price x quantity of the fills fs[1..n]
SumValue(fs, n) == IF n = 0 THEN 0 ELSE fs[n].price * fs[n].qty + SumValue(fs, n - 1)

\* C26: after any sequence of fills on an instrument, volume_today equals
\* the sum of the fill quantities and vwap_numerator equals the sum of
\* price x quantity over those fills (both zero before the first fill).
C26_VolumeAndVwap ==
    [][Len(orders') > Len(orders) =>
          /\ NoFillYet => (stats.volume_today = 0 /\ stats.vwap_numerator = 0)
          /\ stats'.volume_today = stats.volume_today + SumQty(fills', Len(fills'))
          /\ stats'.vwap_numerator = stats.vwap_numerator + SumValue(fills', Len(fills'))]_vars

\* --------------------------------------------------------- notifier claims
\* q without the first occurrence of x
EraseFirst(q, x) ==
    IF \E i \in 1..Len(q) : q[i] = x
    THEN DropAt(q, CHOOSE j \in 1..Len(q) : q[j] = x /\ \A h \in 1..(j - 1) : q[h] # x)
    ELSE q

\* the members of group g in the map G, none when G holds no such group
MembersIn(G, g) == IF g \in DOMAIN G THEN G[g] ELSE <<>>
Members(g) == MembersIn(groups, g)

\* C28: unsubscribe(group, client_id) removes exactly the first occurrence of
\* client_id from the group's subscriber list, so that afterwards a client_id
\* that was subscribed once receives nothing from notify_group on that group;
\* unsubscribing a client_id that is not in the list changes nothing.
C28_UnsubscribeRemovesFirst ==
    [][notifier_ret'.op = "unsubscribe" =>
          \A g \in GroupNames :
             MembersIn(groups', g) = IF g = notifier_ret'.group
                                     THEN EraseFirst(Members(g), notifier_ret'.clientId)
                                     ELSE Members(g)]_vars

\* C29: notify_group(group, bytes) appends bytes to the outbound buffer of the
\* session registered for each client_id of the group's list, once per
\* occurrence of the client_id and in list order (a client_id subscribed k
\* times receives k copies); client_ids without an authenticated session are
\* skipped; for a group that does not exist nothing is delivered and the
\* group is not created. A session that is given a copy has its socket
\* watched for writing; nothing else of any session changes.
C29_NotifyGroupPerOccurrence ==
    [][notifier_ret'.op = "notifyGroup" =>
          /\ groups' = groups
          /\ sessions_' = sessions_
          /\ temp_sessions_' = temp_sessions_
          /\ \A sid \in 1..Len(sess) :
                /\ sess'[sid] = [sess[sid] EXCEPT !.outbuf = @ \o Appended(sid),
                                                 !.epollout = @ \/ Appended(sid) # <<>>]
                /\ Len(Appended(sid))
                      = Cardinality({i \in 1..Len(Members(notifier_ret'.group)) :
                                        Registered(Net, Members(notifier_ret'.group)[i]) = sid})
                /\ \A i \in 1..Len(Appended(sid)) :
                      Appended(sid)[i] = Msg(notifier_ret'.message)]_vars

\* notify_group has just served a group whose list names one client_id twice
\* and another one that has no session: the session of the first holds two
\* copies
C29_Witness ==
    /\ notifier_ret.op = "notifyGroup"
    /\ notifier_ret.group = "L1"
    /\ Len(groups["L1"]) = 2
    /\ groups["L1"][1] = groups["L1"][2]
    /\ Registered(Net, groups["L1"][1]) # NULL
    /\ sess[Registered(Net, groups["L1"][1])].outbuf = <<Msg("NEWS"), Msg("NEWS")>>

\* ------------------------------------------------------ market data claims
RECURSIVE Copies(_, _)
\* n copies of message m
Copies(m, n) == IF n = 0 THEN <<>> ELSE <<m>> \o Copies(m, n - 1)

\* the F1_UPDATE block of the i-th fill of the placement a step has made, as
\* a session receives it
F1Block(i) ==
    [k |-> "F1_UPDATE", q |-> 0, p |-> AfterFill(i).p, high |-> AfterFill(i).high,
     low |-> AfterFill(i).low, open |-> AfterFill(i).open, close |-> AfterFill(i).close]

\* what the i-th fill of the placement sends to session sid when sid holds
\* subs subscriptions of L1: the F1_UPDATE blocks, then the EXEC line of the
\* buyer, then the EXEC line of the seller
FillOutput(sid, subs, i) ==
    Copies(F1Block(i), subs)
    \o (IF Registered(Net, orders'[fills'[i].buy].clientId) = sid
        THEN <<ExecLine(fills'[i].qty, fills'[i].price)>> ELSE <<>>)
    \o (IF Registered(Net, orders'[fills'[i].sell].clientId) = sid
        THEN <<ExecLine(fills'[i].qty, fills'[i].price)>> ELSE <<>>)

RECURSIVE PlacementOutput(_, _, _)
PlacementOutput(sid, subs, n) ==
    IF n = 0 THEN <<>> ELSE PlacementOutput(sid, subs, n - 1) \o FillOutput(sid, subs, n)

\* the F1_UPDATE blocks and EXEC lines among what a step appended to sid
MarketLines(sid) == SelectSeq(Appended(sid), LAMBDA m : m.k \in {"F1_UPDATE", "EXEC"})

\* the entries of the list of L1 that name client_id cid
Subscriptions(cid) == Cardinality({i \in 1..Len(groups["L1"]) : groups["L1"][i] = cid})

\* the block of the last fill carries the statistics as they are afterwards
LastBlockIsCurrent ==
    fills' # <<>> =>
       /\ F1Block(Len(fills')).p = stats'.last_trade_price
       /\ F1Block(Len(fills')).high = stats'.high
       /\ F1Block(Len(fills')).low = stats'.low
       /\ F1Block(Len(fills')).open = stats'.open
       /\ F1Block(Len(fills')).close = stats'.close

\* C27: each fill first updates the market statistics and then enqueues one
\* F1_UPDATE block carrying the updated LTP, HIGH, LOW, OPEN and CLOSE to
\* every authenticated session subscribed to group L1; the F1_UPDATE of a
\* fill is enqueued before the EXEC lines of that same fill, and k fills
\* produce exactly k F1_UPDATE blocks per subscription. A session counts as
\* subscribed when it is open and authenticated and the list of L1 names its
\* client_id.
C27_UpdatePerFillToSubscribers ==
    [][Len(orders') > Len(orders) =>
          /\ LastBlockIsCurrent
          /\ \A sid \in 1..Len(sess) :
                (/\ sess[sid].is_authenticated
                 /\ sess[sid].fd \in Fds
                 /\ temp_sessions_[sess[sid].fd] = sid
                 /\ Subscriptions(sess[sid].client_id) > 0) =>
                   MarketLines(sid)
                      = PlacementOutput(sid, Subscriptions(sess[sid].client_id), Len(fills'))
      ]_vars

\* the statement of C27 with the subscriptions counted per client_id: every
\* session gets, fill by fill, one F1_UPDATE block for each entry of the list
\* of L1 whose client_id is registered to it, and after them the EXEC lines of
\* that fill
UpdatePerFillToRegistered ==
    [][Len(orders') > Len(orders) =>
          /\ LastBlockIsCurrent
          /\ \A sid \in 1..Len(sess) :
                MarketLines(sid)
                   = PlacementOutput(sid,
                                     Cardinality({i \in 1..Len(groups["L1"]) :
                                                     Registered(Net, groups["L1"][i]) = sid}),
                                     Len(fills'))]_vars

C31_SweepRemovesStale ==
    /\ [][cleanup_stale =>
             \A fd \in Fds :
                temp_sessions_[fd] # NULL =>
                   IF sess[temp_sessions_[fd]].idle > SESSION_TIMEOUT
                   THEN /\ sess'[temp_sessions_[fd]].fd = -1
                        /\ \A f \in Fds : temp_sessions_'[f] # temp_sessions_[fd]
                        /\ \A c \in ClientIds : sessions_'[c] # temp_sessions_[fd]
                   ELSE /\ sess'[temp_sessions_[fd]] = sess[temp_sessions_[fd]]
                        /\ temp_sessions_'[fd] = temp_sessions_[fd]
                        /\ \A c \in ClientIds :
                              sessions_[c] = temp_sessions_[fd] =>
                                 sessions_'[c] = temp_sessions_[fd]
         ]_vars
    /\ [][\A fd \in Fds :
             (handle_read(fd) \/ handle_write(fd)) =>
                /\ temp_sessions_'[fd] = temp_sessions_[fd]
                /\ sess'[temp_sessions_[fd]].idle = 0
         ]_vars

\* cleanup_stale has removed a session that had authenticated, and has left
\* a session open whose last activity is exactly SESSION_TIMEOUT old
C31_Witness ==
    \E sid \in 1..Len(sess), other \in 1..Len(sess) :
       /\ peer[sid].swept
       /\ sess[sid].fd = -1
       /\ \E i \in 1..Len(peer[sid].dispatched) : peer[sid].dispatched[i][1] = "AUTH"
       /\ \A c \in ClientIds : sessions_[c] = NULL
       /\ sess[other].fd \in Fds
       /\ temp_sessions_[sess[other].fd] = other
       /\ sess[other].idle = SESSION_TIMEOUT

\* C32: a step in which an open session is closed (the peer closed, recv or
\* send failed, the descriptor reported an error or a hangup, the session was
\* idle too long, or a login superseded it) leaves that session without
\* output and in neither table, and leaves the node pool, both books, every
\* order with its quantities and its place in its level, and the statistics
\* as they were; a closed session never changes again.
C32_RemovalKeepsBook ==
    [][\A sid \in 1..Len(sess) :
          /\ (sess[sid].fd # -1 /\ sess'[sid].fd = -1) =>
                /\ sess'[sid].outbuf = <<>>
                /\ \A fd \in Fds : temp_sessions_'[fd] # sid
                /\ \A c \in ClientIds : sessions_'[c] # sid
                /\ heap' = heap
                /\ buy_side' = buy_side
                /\ sell_side' = sell_side
                /\ orders' = orders
                /\ stats' = stats
          /\ sess[sid].fd = -1 => sess'[sid] = sess[sid]
      ]_vars

\* an order whose client has no session any more has just been filled by
\* the placement of another client
C32_Witness ==
    /\ fills # <<>>
    /\ orders[Maker(fills[1])].clientId # NoCid
    /\ sessions_[orders[Maker(fills[1])].clientId] = NULL
    /\ \E sid \in 1..Len(sess) : sess[sid].fd = -1
    /\ orders[Incoming].clientId # NoCid
    /\ sessions_[orders[Incoming].clientId] # NULL

\* the complete lines of a byte stream that hold something other than white
\* space, each as its folded tokens, and what follows the last newline
RECURSIVE LinesOf(_)
LinesOf(stream) ==
    IF \A i \in 1..Len(stream) : stream[i] # "\n" THEN <<>>
    ELSE LET nl == CHOOSE i \in 1..Len(stream) :
                      stream[i] = "\n" /\ \A j \in 1..(i - 1) : stream[j] # "\n"
             line == SubSeq(stream, 1, nl - 1)
             rest == LinesOf(SubSeq(stream, nl + 1, Len(stream)))
         IN IF \A i \in 1..Len(line) : IsSpace(line[i]) THEN rest
            ELSE <<FoldTokens(split_ws(line))>> \o rest

Unfinished(stream) ==
    IF \A i \in 1..Len(stream) : stream[i] # "\n" THEN stream
    ELSE SubSeq(stream, 1 + CHOOSE i \in 1..Len(stream) :
                               stream[i] = "\n" /\ \A j \in (i + 1)..Len(stream) : stream[j] # "\n",
                Len(stream))

\* C33: whatever the recv calls returned piece by piece, the lines dispatched
\* for a session are the complete non-blank lines of all the bytes received,
\* each once and in the order of arrival, and the input buffer of an open
\* session holds exactly the bytes after the last newline; a step appends one
\* reply to a session for every line it dispatches for it, so a blank line
\* and an unfinished line get no reply.
C33_LinesDispatchedOnce ==
    /\ [](\A sid \in 1..Len(sess) :
             /\ peer[sid].dispatched = LinesOf(peer[sid].recvd)
             /\ sess[sid].fd # -1 => sess[sid].inbuf = Unfinished(peer[sid].recvd))
    /\ [][\A sid \in 1..Len(sess) :
             Len(Appended(sid)) = Len(peer'[sid].dispatched) - Len(peer[sid].dispatched)
         ]_vars

\* a recv has ended inside the word of the second command: PING was
\* dispatched, two blank lines were not, and the pieces of the unfinished
\* line wait in the input buffer
C33_Witness ==
    \E sid \in 1..Len(sess) :
       /\ sess[sid].fd # -1
       /\ sess[sid].inbuf = <<"bo">>
       /\ peer[sid].dispatched = <<(<<"PING">>)>>
       /\ Len(peer[sid].recvd) = 9

\* a step that changes the subscriptions is a SUB of an authenticated
\* session: it appends that session's client_id to the list of one group and
\* appends exactly the reply to that session and nothing to any other; a
\* step that answers UNAUTHORIZED or ERR BAD_COMMAND changes no subscription;
\* and subscribe on a group the map does not hold creates it with one entry
SubAppendsAndReplies(reply) ==
    /\ groups' # groups =>
          \E sid \in 1..Len(sess), g \in DOMAIN groups :
             /\ sess[sid].is_authenticated
             /\ groups' = [groups EXCEPT ![g] = Append(@, sess[sid].client_id)]
             /\ Appended(sid) = <<Msg(reply)>>
             /\ \A other \in 1..Len(sess) : other # sid => Appended(other) = <<>>
    /\ \A sid \in 1..Len(sess) :
          Appended(sid) \in {<<Msg("UNAUTHORIZED")>>, <<Msg("ERR BAD_COMMAND")>>} =>
             groups' = groups
    /\ \A cid \in ClientIds :
          Notifier_subscribe(Net, "L2", cid).groups
             = [g \in DOMAIN groups \cup {"L2"} |-> IF g = "L2" THEN <<cid>> ELSE groups[g]]

\* C34: a SUB <group> of an authenticated session appends the session's
\* client_id to the list of the group, creating the group if need be, and
\* enqueues exactly the reply SUBSCRIBED; a SUB of an unauthenticated session
\* or without a group changes no subscription.
C34_SubAppendsAndReplies == [][SubAppendsAndReplies("SUBSCRIBED")]_vars

\* the same with the reply the processor sends
SubRepliesAsCoded == [][SubAppendsAndReplies("SUBSCRIEBED")]_vars

\* the replies of a session that have been sent: under SpecReactor every
\* dispatched line is answered with one reply to its own session and nothing
\* else is enqueued, so these are the replies that no longer wait
Sent(sid) == Len(peer[sid].dispatched) - Len(sess[sid].outbuf)

\* C35: in every state every open session with output waiting has EPOLLOUT
\* set for its descriptor; a step clears EPOLLOUT of a session that stays
\* open only if it leaves the output buffer empty, and a step that shortens
\* the buffer of a session that stays open keeps exactly its tail; and if a
\* write event that stays possible is delivered, the k-th reply of every
\* session is sent at some time unless the session is removed.
C35_OutputIsArmedAndDrains ==
    /\ [](\A fd \in Fds :
             (temp_sessions_[fd] # NULL /\ sess[temp_sessions_[fd]].outbuf # <<>>) =>
                sess[temp_sessions_[fd]].epollout)
    /\ [][\A sid \in 1..Len(sess) :
             (sess[sid].fd # -1 /\ sess'[sid].fd # -1) =>
                /\ (sess[sid].epollout /\ ~sess'[sid].epollout) => sess'[sid].outbuf = <<>>
                /\ Len(sess'[sid].outbuf) < Len(sess[sid].outbuf) =>
                      sess'[sid].outbuf
                         = SubSeq(sess[sid].outbuf,
                                  Len(sess[sid].outbuf) - Len(sess'[sid].outbuf) + 1,
                                  Len(sess[sid].outbuf))
         ]_vars
    /\ \A sid \in 1..MaxSessions, k \in 1..MaxReplies :
          (Len(sess) >= sid /\ Len(peer[sid].dispatched) >= k)
             ~> (Len(sess) >= sid /\ (sess[sid].fd = -1 \/ Sent(sid) >= k))

\* after a write that took the first of two replies, the second one waits
\* with EPOLLOUT still set
C35_Witness ==
    \E sid \in 1..Len(sess) :
       /\ sess[sid].fd # -1
       /\ Len(peer[sid].dispatched) = 2
       /\ Sent(sid) = 1
       /\ sess[sid].outbuf = <<Msg("PONG")>>
       /\ sess[sid].epollout

\* C36: in every state every entry of the authenticated table refers to a
\* session that is open, that the per-connection table holds under its
\* descriptor, that is marked authenticated and whose client_id is the key of
\* the entry; no session is referred to under two client_ids and no two
\* entries refer to sessions with the same descriptor; and a step that
\* changes the client_id of a registered session takes its old entry out of
\* the table and registers it under the new client_id.
C36_OneSessionPerClientId ==
    /\ [](/\ \A cid \in ClientIds :
                sessions_[cid] # NULL =>
                   /\ sess[sessions_[cid]].fd \in Fds
                   /\ temp_sessions_[sess[sessions_[cid]].fd] = sessions_[cid]
                   /\ sess[sessions_[cid]].is_authenticated
                   /\ sess[sessions_[cid]].client_id = cid
          /\ \A c1 \in ClientIds, c2 \in ClientIds :
                (sessions_[c1] # NULL /\ sessions_[c2] # NULL /\ c1 # c2) =>
                   /\ sessions_[c1] # sessions_[c2]
                   /\ sess[sessions_[c1]].fd # sess[sessions_[c2]].fd)
    /\ [][\A cid \in ClientIds :
             (/\ sessions_[cid] # NULL
              /\ sess'[sessions_[cid]].fd # -1
              /\ sess'[sessions_[cid]].client_id # cid) =>
                /\ sessions_'[cid] # sessions_[cid]
                /\ sessions_'[sess'[sessions_[cid]].client_id] = sessions_[cid]
         ]_vars

\* the only session there has been placed an order as X and is now
\* registered as Y, and nothing is registered as X
C36_Witness ==
    /\ Len(sess) = 1
    /\ Len(orders) >= 1
    /\ orders[1].clientId = "X"
    /\ sessions_["Y"] = 1
    /\ sessions_["X"] = NULL
    /\ sess[1].client_id = "Y"

\* C37: every call of placeOrder returns: the process is never left in a
\* matching loop that does not end, nor dead from reading a level that has
\* been removed; and a placement makes at most as many fills as orders rest
\* on the instrument when its loop starts (the resting ones and the new
\* one), each fill taking the remaining quantity of one of its two orders
\* to 0, which is then in no level.
C37_PlaceOrderTerminates ==
    /\ [](proc = "running")
    /\ [][Len(orders') > Len(orders) =>
             /\ Len(fills') <= Cardinality(RestingBuy \cup RestingSell) + 1
             /\ \A i \in 1..Len(fills') :
                   \E o \in {fills'[i].buy, fills'[i].sell} :
                      /\ orders'[o].remaining = 0
                      /\ o \notin RestingOf(heap', orders', "Buy")
                      /\ o \notin RestingOf(heap', orders', "Sell")
         ]_vars


\* the quantity tokens of the NEWL lines the processor accepts
AcceptedQtyTokens == {line[4] : line \in NewlLines}

\* C38: every NEWL answered with REQUEST_MADE creates an order whose quantity
\* is the integer value of its quantity token and is strictly positive:
\* narrowing the parsed 64-bit value to the quantity of the order never
\* wraps, so every order of the book has a positive quantity, which widened
\* again is the value of a token the processor accepted
C38_QuantityIsTheTokenValue ==
    \A i \in 1..Len(orders) :
        LET q == orders[i].quantity
        IN /\ q > 0
           /\ \E t \in AcceptedQtyTokens : stoll(t).v = <<q % 65536, q \div 65536, 0>>

\* the narrowing of the code: 2^32 comes out as 0 and 2^31 as -2^31, both
\* after the check for a positive value has passed
NarrowingWraps ==
    /\ stoll("4294967296").v # <<0, 0, 0>> /\ static_cast_int(stoll("4294967296").v) = 0
    /\ stoll("2147483648").v # <<0, 0, 0>>
    /\ static_cast_int(stoll("2147483648").v) = -2147483647 - 1
    /\ \A q \in Qtys : static_cast_int(stoll(NumTokens[q]).v) = q


\* ------------------------------------------------ reply of a placed order
\* a step that handles a NEWL line that has passed every check of the
\* processor: placeOrder is called, and returns or does not
NewlPlaces == Len(orders') > Len(orders) \/ proc' # proc

\* the REQUEST_MADE replies among what a step appended to sid
Replies(sid) == SelectSeq(Appended(sid), LAMBDA m : m.k = "REQUEST_MADE")

\* what a step appended to sid is the output of the placement that is
\* addressed to sid, whole and in order, and then one REQUEST_MADE, with at
\* most the reply to an empty client_id in front
RepliesAfterNotifications(sid) ==
    LET out == PlacementOutput(sid,
                               Cardinality({i \in 1..Len(groups["L1"]) :
                                               Registered(Net, groups["L1"][i]) = sid}),
                               Len(fills'))
    IN \/ Appended(sid) = out \o <<Msg("REQUEST_MADE")>>
       \/ Appended(sid) = <<Msg("NOT AUTHENTICATED (NO CID)")>> \o out \o <<Msg("REQUEST_MADE")>>

\* one session is answered, after its notifications, and no other session
\* gets a REQUEST_MADE
OneReplyAfterNotifications ==
    \E sid \in 1..Len(sess) :
        /\ RepliesAfterNotifications(sid)
        /\ \A other \in (1..Len(sess)) \ {sid} : Replies(other) = <<>>

\* C39: when a NEWL crosses resting orders, all notifications caused by that
\* placement that are addressed to the submitter (its EXEC lines and the
\* F1_UPDATE blocks it is subscribed to) are placed in the submitter's output
\* buffer before the REQUEST_MADE reply of that NEWL, and REQUEST_MADE is
\* enqueued exactly once whether or not any fill occurred.
C39_RequestMadeOnceAfterNotifications ==
    [][NewlPlaces => OneReplyAfterNotifications]_vars

\* the statement of C39 for the placements that return
ReturningNewlRepliesAfterNotifications ==
    [][Len(orders') > Len(orders) => OneReplyAfterNotifications]_vars

\* a NEWL has crossed: its submitter holds an F1_UPDATE block, an EXEC line
\* and, last, the REQUEST_MADE
SubmitterNotifiedThenAnswered ==
    \E sid \in 1..Len(sess) :
        /\ Len(sess[sid].outbuf) >= 3
        /\ sess[sid].outbuf[Len(sess[sid].outbuf)].k = "REQUEST_MADE"
        /\ \E i, j \in 1..Len(sess[sid].outbuf) :
              i < j /\ sess[sid].outbuf[i].k = "F1_UPDATE" /\ sess[sid].outbuf[j].k = "EXEC"

====
